---- MODULE Spec2Model ----
(***************************************************************************)
(* MyWhoosh2Garmin (src/myWhoosh2Garmin.py).                               *)
(*                                                                         *)
(* Spec is the rewrite pass of cleanup_fit_file.  The pass walks the decoded records of a FIT  *)
(* file once, strips the temperature field of every Record, collects the   *)
(* cadence / power / heart-rate samples of the current window, replaces    *)
(* each Session by a newly built one carrying the averages, and hands      *)
(* every message to the FitFileBuilder.                                    *)
(*                                                                         *)
(* A message is [kind, obj, fields]: its class, its object identity and    *)
(* its field table (a function from the names of the fields that have a    *)
(* value to those values).  The fit_tool getters return None for a field   *)
(* without a value, so "absent" is "not in the domain of the table".       *)
(* Field values are kept as the getters return them; the scaling the       *)
(* fit_tool setters and getters do is outside this repository.             *)
(*                                                                         *)
(* The other functions of the script each have a frame variable (their     *)
(* arguments, what they read of the environment, their locals, position    *)
(* and result) and a specification of their own that starts the function   *)
(* in every environment of a bounded family; SpecMain runs main.  A frame  *)
(* is Idle while its function is not running.  A library call raises only  *)
(* the exceptions the script names in its except clauses.                  *)
(***************************************************************************)
EXTENDS Integers, Sequences, FiniteSets, TLC

\* The largest number of records in a decoded file.
MaxMsgs == 4
\* Field values range over 0..MaxValue.
MaxValue == 2

\* Python's None, as returned by getattr(message, name, None).
None == -1

VARIABLES
    records,            \* the records of fit_file.records iterated so far, as decoded
    added,              \* the messages handed to builder.add, in order
    lap_values,         \* the four window lists of cleanup_fit_file
    cadence_values,
    power_values,
    heart_rate_values,
    pc,                 \* "loop": in the for loop; "saved": to_file done; "raised": an exception left the function
    pkgs,               \* ensure_packages
    loc,                \* get_fitfile_location
    bak,                \* get_backup_path
    auth,               \* authenticate_to_garmin
    recent,             \* get_most_recent_fit_file
    sav,                \* cleanup_and_save_fit_file
    upl,                \* upload_fit_file_to_garmin
    mn                  \* main

\* The frames of the functions other than cleanup_fit_file.
frames == <<pkgs, loc, bak, auth, recent, sav, upl, mn>>

vars == <<records, added, lap_values, cadence_values, power_values, heart_rate_values, pc,
          pkgs, loc, bak, auth, recent, sav, upl, mn>>

\* The frame of a function that is not running.
Idle == [pc |-> "idle"]

-----------------------------------------------------------------------------
(* The fields of the messages                                               *)

SESSION_COPY_FIELDS ==
    << "message_index", "timestamp", "start_time", "sport", "sub_sport",
       "event", "event_type", "first_lap_index", "num_laps",
       "total_elapsed_time", "total_timer_time", "total_distance",
       "total_calories", "avg_speed", "max_speed" >>

\* A variant of LAP_FIELDS with the two heart-rate fields in the other order.
LAP_FIELDS_reordered ==
    << "start_time", "total_elapsed_time", "total_distance", "avg_speed",
       "max_speed", "max_heart_rate", "avg_heart_rate", "avg_cadence",
       "max_cadence", "total_calories" >>

\* The ten fields read from a LapMessage, in the order of the append_value calls.
LAP_FIELDS ==
    << "start_time", "total_elapsed_time", "total_distance", "avg_speed",
       "max_speed", "avg_heart_rate", "max_heart_rate", "avg_cadence",
       "max_cadence", "total_calories" >>

\* RecordTemperatureField.ID
TemperatureFieldID == "temperature"

AVG_FIELDS == << "avg_cadence", "avg_power", "avg_heart_rate" >>

Range(s) == { s[i] : i \in 1..Len(s) }

-----------------------------------------------------------------------------
(* The decoded input: bounded families of messages of each class.           *)
(* ValueSeq lists "no value" and the values; Table(names, k) gives the j-th *)
(* name the (k+j)-th entry of ValueSeq, cyclically, so that over the        *)
(* rotations k a field is absent in one table and has different values in   *)
(* the others, and neighbouring fields always differ.                       *)

ValueSeq == <<None>> \o [i \in 1..(MaxValue + 1) |-> i - 1]

Rot(k, j) == ValueSeq[((k + j) % Len(ValueSeq)) + 1]

IndexOf(names, f) == CHOOSE j \in 1..Len(names) : names[j] = f

Table(names, k) ==
    [ f \in { names[j] : j \in { i \in 1..Len(names) : Rot(k, i) # None } }
        |-> Rot(k, IndexOf(names, f)) ]

Without(table, names) == [ f \in (DOMAIN table) \ names |-> table[f] ]

RecordFieldNames == << "cadence", "power", "heart_rate", "temperature", "distance" >>
LapFieldNames ==
    << "timestamp", "start_time", "total_elapsed_time", "total_timer_time",
       "total_distance", "avg_speed", "max_speed", "avg_heart_rate",
       "max_heart_rate", "avg_cadence", "max_cadence", "total_calories" >>
SessionFieldNames == SESSION_COPY_FIELDS \o AVG_FIELDS \o << "max_power", "total_ascent" >>
FileCreatorFieldNames == << "software_version", "hardware_version" >>
OtherFieldNames == << "event", "data" >>

RecordTables == { Table(RecordFieldNames, k) : k \in {0, 1, 2, 3} }
LapTables == { Table(LapFieldNames, 1) }
SessionTables ==
    { Table(SessionFieldNames, k) : k \in {0, 1, 3} }
        \cup { Without(Table(SessionFieldNames, 1), Range(AVG_FIELDS)) }
FileCreatorTables == { Table(FileCreatorFieldNames, 0) }
OtherTables == { Table(OtherFieldNames, 1) }

\* The message objects the decoder can yield as the i-th record of the file.
Decoded(kind, tables, i) ==
    { [kind |-> kind, obj |-> <<"decoded", i>>, fields |-> t] : t \in tables }

-----------------------------------------------------------------------------
(* The helpers of the pass                                                  *)

\* getattr(message, field_name, None)
getattr(message, field_name) ==
    IF field_name \in DOMAIN message.fields THEN message.fields[field_name] ELSE None

\* Python truthiness of a field value: None and 0 are false.
Truthy(value) == value # None /\ value # 0

\* A variant of append_value that skips a field without a value.
append_value_skip_absent(values, message, field_name) ==
    LET value == getattr(message, field_name)
    IN  IF value = None THEN values ELSE Append(values, value)

\* append_value: values.append(value if value else 0)
append_value(values, message, field_name) ==
    LET value == getattr(message, field_name)
    IN  Append(values, IF Truthy(value) THEN value ELSE 0)

\* A variant of remove_field that matches on the value: a field whose value
\* is 0 stays.
remove_field_by_value(message, id) ==
    IF Truthy(getattr(message, id))
    THEN [message EXCEPT !.fields = [ f \in (DOMAIN @) \ {id} |-> @[f] ]]
    ELSE message

\* message.remove_field(id): the field leaves the table, whatever its value.
remove_field(message, id) ==
    [message EXCEPT !.fields = [ f \in (DOMAIN @) \ {id} |-> @[f] ]]

RECURSIVE sum(_)
sum(values) == IF values = <<>> THEN 0 ELSE Head(values) + sum(Tail(values))

\* Python's true division a / b: a quotient num/den, or ZeroDivisionError.
TrueDiv(a, b) ==
    IF b = 0 THEN [raised |-> TRUE, num |-> 0, den |-> 1]
             ELSE [raised |-> FALSE, num |-> a, den |-> b]

\* A variant of calculate_avg that divides by one more than the number of values.
calculate_avg_count_plus_one(values) ==
    IF Len(values) # 0 THEN TrueDiv(sum(values), Len(values) + 1)
                       ELSE [raised |-> FALSE, num |-> 0, den |-> 1]

\* A variant of calculate_avg without the test for the empty list.
calculate_avg_unguarded(values) == TrueDiv(sum(values), Len(values))

\* calculate_avg: sum(values_list) / len(values_list) if values_list else 0.0
calculate_avg(values) ==
    IF Len(values) # 0 THEN TrueDiv(sum(values), Len(values))
                       ELSE [raised |-> FALSE, num |-> 0, den |-> 1]

\* int(x) of a float x = num/den: truncation toward zero.
int(x) ==
    IF x.num >= 0 THEN x.num \div x.den ELSE -((-x.num) \div x.den)

\* reset_values: four new empty lists.
reset_values == << <<>>, <<>>, <<>>, <<>> >>

\* A variant of SessionAvg that tests the input's value for truth, not for
\* None: a present 0 is recomputed.
SessionAvg_truthy(message, name, values) ==
    IF Truthy(getattr(message, name)) THEN getattr(message, name)
                                      ELSE int(calculate_avg(values))

\* A variant of SessionAvg that only copies the input's value.
SessionAvg_copy_only(message, name, values) == getattr(message, name)

\* An average of the new Session: the input's value when it has one ("is None"
\* test), else int(calculate_avg(values)).
SessionAvg(message, name, values) ==
    IF getattr(message, name) = None THEN int(calculate_avg(values))
                                     ELSE getattr(message, name)

\* A variant of CopiedFields that tests "if val:": a field whose value is 0
\* is not copied.
CopiedFields_truthy(message) ==
    { name \in Range(SESSION_COPY_FIELDS) : Truthy(getattr(message, name)) }

\* The names SessionMessage() gets set by the copy loop: the fields of
\* SESSION_COPY_FIELDS whose value in the input is not None.
CopiedFields(message) ==
    { name \in Range(SESSION_COPY_FIELDS) : getattr(message, name) # None }

\* new_session as it is when handed to builder.add: a new object holding the
\* copied fields and the three averages.
NewSession(message, cadence, power, heart_rate) ==
    [ kind   |-> "session",
      obj    |-> <<"new", message.obj[2]>>,
      fields |-> [ name \in CopiedFields(message) \cup Range(AVG_FIELDS) |->
                     CASE name = "avg_cadence"    -> SessionAvg(message, name, cadence)
                       [] name = "avg_power"      -> SessionAvg(message, name, power)
                       [] name = "avg_heart_rate" -> SessionAvg(message, name, heart_rate)
                       [] OTHER                   -> getattr(message, name) ] ]

\* Does building the new Session raise (a ZeroDivisionError of calculate_avg)?
SessionRaises(message, cadence, power, heart_rate) ==
    \/ getattr(message, "avg_cadence") = None /\ calculate_avg(cadence).raised
    \/ getattr(message, "avg_power") = None /\ calculate_avg(power).raised
    \/ getattr(message, "avg_heart_rate") = None /\ calculate_avg(heart_rate).raised

\* The ten append_value calls of the LapMessage branch.
RECURSIVE AppendLap(_, _, _)
AppendLap(values, message, names) ==
    IF names = <<>> THEN values
    ELSE AppendLap(append_value(values, message, Head(names)), message, Tail(names))

-----------------------------------------------------------------------------
(* The loop body of cleanup_fit_file, as a function of the local state w:   *)
(* the four lists, the builder's messages and whether an exception was      *)
(* raised.                                                                  *)

\* builder and the four lists as they are when the loop starts.
Start ==
    [ lap_values        |-> reset_values[1],
      cadence_values    |-> reset_values[2],
      power_values      |-> reset_values[3],
      heart_rate_values |-> reset_values[4],
      added             |-> <<>>,
      raised            |-> FALSE ]

\* builder.add(message)
BuilderAdd(w, message) == [w EXCEPT !.added = Append(@, message)]

\* A variant of ProcessLap whose append of avg_heart_rate goes to the
\* heart-rate list.
ProcessLap_into_heart_rate(w, message) ==
    [w EXCEPT !.lap_values = AppendLap(@, message, LAP_FIELDS),
              !.heart_rate_values = append_value(@, message, "avg_heart_rate")]

\* The LapMessage branch: ten appends to lap_values; no continue.
ProcessLap(w, message) ==
    [w EXCEPT !.lap_values = AppendLap(@, message, LAP_FIELDS)]

\* A variant of ProcessRecord that appends the power sample to the cadence
\* list and the cadence sample to the power list.
ProcessRecord_swapped(w, message) ==
    LET stripped == remove_field(message, TemperatureFieldID)
    IN  BuilderAdd(
            [w EXCEPT !.cadence_values = append_value(@, stripped, "power"),
                      !.power_values = append_value(@, stripped, "cadence"),
                      !.heart_rate_values = append_value(@, stripped, "heart_rate")],
            stripped)

\* The RecordMessage branch: remove the temperature, append the three
\* samples, add the message.
ProcessRecord(w, message) ==
    LET stripped == remove_field(message, TemperatureFieldID)
    IN  BuilderAdd(
            [w EXCEPT !.cadence_values = append_value(@, stripped, "cadence"),
                      !.power_values = append_value(@, stripped, "power"),
                      !.heart_rate_values = append_value(@, stripped, "heart_rate")],
            stripped)

\* A variant of ResetWindow that resets the three sample lists and keeps the
\* lap list, as the docstring of reset_values has it.
ResetWindow_keeps_laps(w) ==
    [w EXCEPT !.cadence_values = reset_values[2],
              !.power_values = reset_values[3],
              !.heart_rate_values = reset_values[4]]

\* A variant of ResetWindow for a loop that lacks the reset.
ResetWindow_missing(w) == w

\* lap_values, cadence_values, power_values, heart_rate_values = reset_values()
ResetWindow(w) ==
    [w EXCEPT !.lap_values = reset_values[1],
              !.cadence_values = reset_values[2],
              !.power_values = reset_values[3],
              !.heart_rate_values = reset_values[4]]

\* A variant of ProcessSession that resets the lists only when it computed an
\* average from them.
ProcessSession_reset_when_computed(w, message) ==
    IF SessionRaises(message, w.cadence_values, w.power_values, w.heart_rate_values)
    THEN [w EXCEPT !.raised = TRUE]
    ELSE BuilderAdd(IF Range(AVG_FIELDS) \subseteq DOMAIN message.fields
                    THEN w ELSE ResetWindow(w),
                    NewSession(message, w.cadence_values, w.power_values,
                               w.heart_rate_values))

\* The SessionMessage branch: build the new Session, reset the four lists,
\* add the new Session.  An exception raised while the new Session is built
\* leaves the function before anything is reset or added.
ProcessSession(w, message) ==
    IF SessionRaises(message, w.cadence_values, w.power_values, w.heart_rate_values)
    THEN [w EXCEPT !.raised = TRUE]
    ELSE BuilderAdd(ResetWindow(w),
                    NewSession(message, w.cadence_values, w.power_values,
                               w.heart_rate_values))

\* A variant of Process whose LapMessage branch ends with continue.
Process_lap_continue(w, message) ==
    IF message.kind = "lap" THEN ProcessLap(w, message)
    ELSE IF message.kind = "record" THEN ProcessRecord(w, message)
    ELSE IF message.kind = "session" THEN ProcessSession(w, message)
    ELSE BuilderAdd(w, message)

\* A variant of Process that takes a FileCreatorMessage for the start of a new
\* activity and resets the lists.
Process_file_creator_resets(w, message) ==
    LET w1 == IF message.kind = "lap" THEN ProcessLap(w, message) ELSE w
    IN  IF message.kind = "record" THEN ProcessRecord(w1, message)
        ELSE IF message.kind = "session" THEN ProcessSession(w1, message)
        ELSE IF message.kind = "file_creator" THEN BuilderAdd(ResetWindow(w1), message)
        ELSE BuilderAdd(w1, message)

\* One iteration of "for record in fit_file.records": the isinstance chain.
Process(w, message) ==
    LET w1 == IF message.kind = "lap" THEN ProcessLap(w, message) ELSE w
    IN  IF message.kind = "record" THEN ProcessRecord(w1, message)
        ELSE IF message.kind = "session" THEN ProcessSession(w1, message)
        ELSE BuilderAdd(w1, message)

\* The whole loop over a stream of decoded records, from state w.
RECURSIVE Run(_, _)
Run(w, stream) ==
    IF stream = <<>> \/ w.raised THEN w
    ELSE Run(Process(w, Head(stream)), Tail(stream))

-----------------------------------------------------------------------------
(* cleanup_fit_file as a state machine: one step per record of the file.    *)

Cur ==
    [ lap_values        |-> lap_values,
      cadence_values    |-> cadence_values,
      power_values      |-> power_values,
      heart_rate_values |-> heart_rate_values,
      added             |-> added,
      raised            |-> pc = "raised" ]

Init ==
    /\ records = <<>>
    /\ added = Start.added
    /\ lap_values = Start.lap_values
    /\ cadence_values = Start.cadence_values
    /\ power_values = Start.power_values
    /\ heart_rate_values = Start.heart_rate_values
    /\ pc = "loop"
    /\ pkgs = Idle /\ loc = Idle /\ bak = Idle /\ auth = Idle
    /\ recent = Idle /\ sav = Idle /\ upl = Idle /\ mn = Idle

\* The loop has another record to take.
HasNext == pc = "loop" /\ Len(records) < MaxMsgs

\* The loop takes message as its next record.
Iterate(message) ==
    LET w == Process(Cur, message)
    IN  /\ records' = Append(records, message)
        /\ lap_values' = w.lap_values
        /\ cadence_values' = w.cadence_values
        /\ power_values' = w.power_values
        /\ heart_rate_values' = w.heart_rate_values
        /\ added' = w.added
        /\ pc' = IF w.raised THEN "raised" ELSE pc
        /\ UNCHANGED frames

\* The next record is a LapMessage.
LoopLap ==
    /\ HasNext
    /\ \E message \in Decoded("lap", LapTables, Len(records) + 1) : Iterate(message)

\* The next record is a RecordMessage.
LoopRecord ==
    /\ HasNext
    /\ \E message \in Decoded("record", RecordTables, Len(records) + 1) : Iterate(message)

\* The next record is a SessionMessage.
LoopSession ==
    /\ HasNext
    /\ \E message \in Decoded("session", SessionTables, Len(records) + 1) : Iterate(message)

\* The next record is of any other class (FileCreator, ...): the default branch.
LoopOther ==
    /\ HasNext
    /\ \E message \in Decoded("file_creator", FileCreatorTables, Len(records) + 1)
                       \cup Decoded("other", OtherTables, Len(records) + 1) :
         Iterate(message)

\* fit_file.records is exhausted: builder.build().to_file(new_file_path).
Save ==
    /\ pc = "loop"
    /\ pc' = "saved"
    /\ UNCHANGED <<records, added, lap_values, cadence_values, power_values,
                   heart_rate_values>>
    /\ UNCHANGED frames

Next == LoopLap \/ LoopRecord \/ LoopSession \/ LoopOther \/ Save

Spec == Init /\ [][Next]_vars

-----------------------------------------------------------------------------
(* What the properties read off the history                                 *)

\* The index of the last Session before record i (0: none).
PrevSession(i) ==
    LET before == { k \in 1..(i - 1) : records[k].kind = "session" }
    IN  IF before = {} THEN 0 ELSE CHOOSE k \in before : \A l \in before : l <= k

\* The window of record i: the Records after the previous Session and before i.
WindowOf(i) == { k \in (PrevSession(i) + 1)..(i - 1) : records[k].kind = "record" }

\* The sample a decoded Record contributes: its value, 0 when absent.
SampleOf(message, name) ==
    IF name \in DOMAIN message.fields THEN message.fields[name] ELSE 0

RECURSIVE WindowSum(_, _)
WindowSum(window, name) ==
    IF window = {} THEN 0
    ELSE LET k == CHOOSE x \in window : TRUE
         IN  SampleOf(records[k], name) + WindowSum(window \ {k}, name)

\* The Record field an average of the Session is taken over.
SampledBy(avg) ==
    CASE avg = "avg_cadence" -> "cadence"
      [] avg = "avg_power" -> "power"
      [] avg = "avg_heart_rate" -> "heart_rate"

\* The positions of added that hold the Session built for input record i.
BuiltFor(i) == { j \in 1..Len(added) : added[j].obj = <<"new", i>> }

\* The input Sessions a new Session has been added for.
SessionsDone == { i \in 1..Len(records) : records[i].kind = "session" /\ BuiltFor(i) # {} }

-----------------------------------------------------------------------------
\* C1: every Record handed to the builder has no temperature field, whether
\* or not the decoded Record had one and whatever its value was, and every
\* other field of the decoded Record is there with the same value.
C1_TemperatureRemoved ==
    \A j \in 1..Len(added) :
        added[j].kind = "record" =>
            /\ added[j].obj[1] = "decoded"
            /\ LET in == records[added[j].obj[2]]
               IN  /\ in.kind = "record"
                   /\ "temperature" \notin DOMAIN added[j].fields
                   /\ DOMAIN added[j].fields = (DOMAIN in.fields) \ {"temperature"}
                   /\ \A f \in DOMAIN added[j].fields : added[j].fields[f] = in.fields[f]

\* Records with a temperature of 0, with a non-zero temperature and without
\* one have all been added.
C1_Witness ==
    /\ \E i \in 1..Len(added) :
          records[i].kind = "record" /\ getattr(records[i], "temperature") = 0
    /\ \E i \in 1..Len(added) :
          records[i].kind = "record" /\ getattr(records[i], "temperature") > 0
    /\ \E i \in 1..Len(added) :
          records[i].kind = "record" /\ getattr(records[i], "temperature") = None

\* C2: a Session with an absent average, reached after at least one Record,
\* is emitted with that average equal to the sum of the window's samples
\* (absent samples counting 0) divided by the number of the window's Records,
\* truncated toward zero: the integer q with q * n <= sum < (q + 1) * n.
C2_AverageIsTruncatedMean ==
    \A i \in SessionsDone : \A j \in BuiltFor(i) : \A avg \in Range(AVG_FIELDS) :
        (avg \notin DOMAIN records[i].fields /\ WindowOf(i) # {}) =>
            LET n == Cardinality(WindowOf(i))
                total == WindowSum(WindowOf(i), SampledBy(avg))
                q == getattr(added[j], avg)
            IN  q # None /\ q * n <= total /\ total < (q + 1) * n

\* A Session without average power has been emitted after a window of two or
\* more Records, one of them without a power sample, whose mean is no integer.
C2_Witness ==
    \E i \in SessionsDone :
        /\ "avg_power" \notin DOMAIN records[i].fields
        /\ Cardinality(WindowOf(i)) >= 2
        /\ \E k \in WindowOf(i) : "power" \notin DOMAIN records[k].fields
        /\ WindowSum(WindowOf(i), "power") % Cardinality(WindowOf(i)) # 0

\* C3: an average the input Session has (0 included) is the emitted
\* Session's value for that field, whatever the window holds, for each of the
\* three fields on its own.
C3_PresentAveragePassesThrough ==
    \A i \in SessionsDone : \A j \in BuiltFor(i) : \A avg \in Range(AVG_FIELDS) :
        avg \in DOMAIN records[i].fields =>
            getattr(added[j], avg) = records[i].fields[avg]

\* A Session with average power 0 and no average cadence has been emitted
\* after a window whose power samples are not all 0.
C3_Witness ==
    \E i \in SessionsDone :
        /\ getattr(records[i], "avg_power") = 0
        /\ "avg_cadence" \notin DOMAIN records[i].fields
        /\ WindowSum(WindowOf(i), "power") >= Cardinality(WindowOf(i))
        /\ WindowOf(i) # {}

\* The Records that precede the Session before record i.
EarlierRecords(i) == { k \in 1..(PrevSession(i) - 1) : records[k].kind = "record" }

\* The first i records, the Records of EarlierRecords(i) carrying the field
\* tables chosen by tables.
WithEarlierRecords(i, tables) ==
    [ k \in 1..i |-> IF k \in EarlierRecords(i)
                      THEN [records[k] EXCEPT !.fields = tables[k]]
                      ELSE records[k] ]

\* C4: with two or more Sessions in the stream, the averages emitted for a
\* Session are those the pass emits for every stream that differs only in
\* the field tables of the Records preceding the previous Session.  Read when
\* the Session has just been processed: records and added only grow.
C4_WindowIsolation ==
    \A i \in SessionsDone \cap {Len(records)} :
        PrevSession(i) > 0 =>
            \A tables \in [EarlierRecords(i) -> RecordTables] :
                LET out == Run(Start, WithEarlierRecords(i, tables))
                IN  /\ ~out.raised
                    /\ Len(out.added) = i
                    /\ \A j \in BuiltFor(i) : \A avg \in Range(AVG_FIELDS) :
                           getattr(out.added[j], avg) = getattr(added[j], avg)

\* A second Session without averages has been emitted after a Record of its
\* own window, the first window holding a Record with non-zero samples.
C4_Witness ==
    \E i \in SessionsDone :
        /\ PrevSession(i) > 0
        /\ WindowOf(i) # {}
        /\ Range(AVG_FIELDS) \cap DOMAIN records[i].fields = {}
        /\ \E k \in EarlierRecords(i) :
              getattr(records[k], "cadence") > 0 /\ getattr(records[k], "power") > 0

\* C5: a Session reached with no Record since the previous Session (or the
\* start of the stream) is emitted with 0 for each average it lacks, and no
\* exception leaves the pass.
C5_EmptyWindowYieldsZero ==
    /\ pc # "raised"
    /\ \A i \in 1..Len(records) :
          (records[i].kind = "session" /\ WindowOf(i) = {}) =>
              /\ BuiltFor(i) # {}
              /\ \A j \in BuiltFor(i) : \A avg \in Range(AVG_FIELDS) :
                     avg \notin DOMAIN records[i].fields => getattr(added[j], avg) = 0

\* Two Sessions without any average have been emitted, one as the first
\* record of the stream and one right after a Session that closed a window
\* with Records.
C5_Witness ==
    /\ \E i \in SessionsDone :
          /\ PrevSession(i) = 0 /\ WindowOf(i) = {}
          /\ Range(AVG_FIELDS) \cap DOMAIN records[i].fields = {}
    /\ \E i \in SessionsDone :
          /\ PrevSession(i) > 0 /\ WindowOf(i) = {} /\ WindowOf(PrevSession(i)) # {}
          /\ Range(AVG_FIELDS) \cap DOMAIN records[i].fields = {}

\* C6: every Session handed to the builder has a value for average cadence,
\* average power and average heart rate.
C6_EmittedSessionHasAverages ==
    \A j \in 1..Len(added) :
        added[j].kind = "session" =>
            \A avg \in {"avg_cadence", "avg_power", "avg_heart_rate"} :
                avg \in DOMAIN added[j].fields /\ added[j].fields[avg] # None

\* Sessions with no average, with one average missing and with all three
\* have been emitted, the first after a window with Records.
C6_Witness ==
    /\ \E i \in SessionsDone :
          Range(AVG_FIELDS) \cap DOMAIN records[i].fields = {} /\ WindowOf(i) # {}
    /\ \E i \in SessionsDone :
          Cardinality(Range(AVG_FIELDS) \cap DOMAIN records[i].fields) = 2
    /\ \E i \in SessionsDone :
          Range(AVG_FIELDS) \subseteq DOMAIN records[i].fields

\* The fields the emitted Session may take from the input Session.
C7_Whitelist ==
    { "message_index", "timestamp", "start_time", "sport", "sub_sport", "event",
      "event_type", "first_lap_index", "num_laps", "total_elapsed_time",
      "total_timer_time", "total_distance", "total_calories", "avg_speed",
      "max_speed" }

\* C7: the emitted Session holds exactly the whitelisted fields the input
\* Session has, with the input's values (0 included), and the three
\* averages; a whitelisted field the input lacks and every other field of
\* the input are absent.
C7_SessionWhitelist ==
    \A i \in SessionsDone : \A j \in BuiltFor(i) :
        /\ DOMAIN added[j].fields =
              (DOMAIN records[i].fields \cap C7_Whitelist)
                  \cup {"avg_cadence", "avg_power", "avg_heart_rate"}
        /\ \A f \in DOMAIN records[i].fields \cap C7_Whitelist :
              added[j].fields[f] = records[i].fields[f]

\* A Session has been emitted whose input has a whitelisted field of value 0,
\* lacks another whitelisted field and has a field outside the whitelist.
C7_Witness ==
    \E i \in SessionsDone :
        /\ \E f \in C7_Whitelist : getattr(records[i], f) = 0
        /\ \E f \in C7_Whitelist : f \notin DOMAIN records[i].fields
        /\ "max_power" \in DOMAIN records[i].fields

Takes(kind) ==
    /\ Len(records') = Len(records) + 1
    /\ records'[Len(records')].kind = kind

\* The ten Lap fields in the order they are collected.
C9_LapFields ==
    << "start_time", "total_elapsed_time", "total_distance", "avg_speed",
       "max_speed", "avg_heart_rate", "max_heart_rate", "avg_cadence",
       "max_cadence", "total_calories" >>

C10_OtherPassesThrough ==
    /\ [][ (Takes("file_creator") \/ Takes("other")) =>
             /\ added' = Append(added, records'[Len(records')])
             /\ lap_values' = lap_values
             /\ cadence_values' = cadence_values
             /\ power_values' = power_values
             /\ heart_rate_values' = heart_rate_values ]_vars
    /\ []( (\A i \in 1..Len(records) : records[i].kind \in {"file_creator", "other"})
             => added = records )

\* A FileCreator has just been taken in a window that holds a Record and a
\* Lap, after a message of another class.
C10_Witness ==
    /\ Len(records) >= 4
    /\ records[Len(records)].kind = "file_creator"
    /\ \E i \in 1..Len(records) : records[i].kind = "other"
    /\ cadence_values # <<>>
    /\ lap_values # <<>>
    /\ added[Len(added)] = records[Len(records)]

(***************************************************************************)
(* The other functions.  StartsIn gives each frame its starting values: a  *)
(* function that is under study starts in every environment of its family, *)
(* the others are Idle, and no cleanup_fit_file pass is running.           *)
(***************************************************************************)
StartsIn(p, l, b, a, r, s, u, m) ==
    /\ records = <<>>
    /\ added = <<>>
    /\ lap_values = <<>>
    /\ cadence_values = <<>>
    /\ power_values = <<>>
    /\ heart_rate_values = <<>>
    /\ pc = "idle"
    /\ pkgs \in p /\ loc \in l /\ bak \in b /\ auth \in a
    /\ recent \in r /\ sav \in s /\ upl \in u /\ mn \in m

(***************************************************************************)
(* ensure_packages, with load_installed_packages, install_package,         *)
(* get_pip_command and save_installed_packages.                            *)
(*                                                                         *)
(* A package of the interpreter is "absent" (find_spec finds nothing),     *)
(* "broken" (find_spec finds it, __import__ raises ModuleNotFoundError:    *)
(* one of its own imports is missing) or "importable".  The tracking file  *)
(* is missing, unreadable, or holds a list of package names.               *)
(***************************************************************************)
required_packages == <<"garth", "fit_tool">>

\* What pip install does to a package: CalledProcessError, or the package's new state.
InstallOutcomes == {"failed", "broken", "importable"}

\* The frames at the call of ensure_packages, one for each tracking file, state
\* of the two packages and availability of pip.
PackagesStarts ==
    [pc : {"load"},
     file : {[exists |-> FALSE, readable |-> FALSE, list |-> {}],
             [exists |-> TRUE, readable |-> FALSE, list |-> {}]}
            \cup {[exists |-> TRUE, readable |-> TRUE, list |-> l] :
                    l \in SUBSET Range(required_packages)},
     env : [Range(required_packages) -> {"absent", "broken", "importable"}],
     pip : BOOLEAN,
     installed_packages : {{}}, i : {1}, all_available : {TRUE}, ret : {FALSE}]

load_installed_packages(file) ==
    IF file.exists /\ file.readable THEN file.list ELSE {}

find_spec(env, package) == env[package] # "absent"

install_package(pip, outcome) == pip /\ outcome # "failed"

\* One pass of the for loop over required_packages.
ensure_package(f, outcome) ==
    LET package == required_packages[f.i]
        next == [f EXCEPT !.i = @ + 1]
        missing == ~find_spec(f.env, package)
        installed == missing /\ install_package(f.pip, outcome)
        env == IF installed THEN [f.env EXCEPT ![package] = outcome] ELSE f.env
    IN  IF package \in f.installed_packages THEN next
        ELSE IF missing /\ ~installed THEN [next EXCEPT !.all_available = FALSE]
        ELSE IF env[package] = "importable"
             THEN [next EXCEPT !.env = env, !.installed_packages = @ \cup {package}]
             ELSE [next EXCEPT !.env = env, !.all_available = FALSE]

\* json.dump of the set to the file; an IOError is logged and leaves the file as it was.
save_installed_packages(file, installed_packages, ok) ==
    IF ok THEN [exists |-> TRUE, readable |-> TRUE, list |-> installed_packages] ELSE file

PackagesLoad ==
    /\ pkgs.pc = "load"
    /\ pkgs' = [pkgs EXCEPT !.installed_packages = load_installed_packages(pkgs.file),
                            !.pc = "loop"]
    /\ UNCHANGED <<records, added, lap_values, cadence_values, power_values,
                   heart_rate_values, pc, loc, bak, auth, recent, sav, upl, mn>>

PackagesIterate ==
    /\ pkgs.pc = "loop"
    /\ pkgs.i <= Len(required_packages)
    /\ \E outcome \in InstallOutcomes : pkgs' = ensure_package(pkgs, outcome)
    /\ UNCHANGED <<records, added, lap_values, cadence_values, power_values,
                   heart_rate_values, pc, loc, bak, auth, recent, sav, upl, mn>>

PackagesReturn ==
    /\ pkgs.pc = "loop"
    /\ pkgs.i > Len(required_packages)
    /\ \E ok \in BOOLEAN :
        pkgs' = [pkgs EXCEPT
                    !.file = save_installed_packages(pkgs.file, pkgs.installed_packages, ok),
                    !.ret = pkgs.all_available,
                    !.pc = "done"]
    /\ UNCHANGED <<records, added, lap_values, cadence_values, power_values,
                   heart_rate_values, pc, loc, bak, auth, recent, sav, upl, mn>>

SpecPackages ==
    /\ StartsIn(PackagesStarts, {Idle}, {Idle}, {Idle}, {Idle}, {Idle}, {Idle}, {Idle})
    /\ [][PackagesLoad \/ PackagesIterate \/ PackagesReturn]_vars

\* Every required package can be imported.
AllImportable(env) == \A p \in Range(required_packages) : env[p] = "importable"

\* C20: ensure_packages returns True exactly when garth and fit_tool are both
\* importable at the time it returns, whatever the tracking file held, whatever
\* was installed and whatever pip did.
C20_ReturnsAvailability ==
    pkgs.pc = "done" => (pkgs.ret <=> AllImportable(pkgs.env))

\* The part of C20 the code keeps: False is never returned while both packages
\* are importable.
C20_FalseMeansUnavailable ==
    pkgs.pc = "done" /\ ~pkgs.ret => ~AllImportable(pkgs.env)

\* ensure_packages has returned True although a package listed in the tracking
\* file cannot be imported.
C20_TrackedButMissing ==
    /\ pkgs.pc = "done"
    /\ pkgs.ret
    /\ \E p \in Range(required_packages) :
        p \in load_installed_packages(pkgs.file) /\ pkgs.env[p] # "importable"

(***************************************************************************)
(* get_fitfile_location.                                                   *)
(*                                                                         *)
(* A path is a sequence of names; NoPath stands for Python's None where a  *)
(* path is expected.  On nt the function lists the Packages directory: the *)
(* listing raises, or yields entries, each with its name (as <<prefix,     *)
(* rest>>), whether it is a directory and whether the MyWhoosh data        *)
(* directory exists below it.                                              *)
(***************************************************************************)
MaxDirs == 2

NoPath == <<>>

MYWHOOSH_PREFIX_WINDOWS == "MyWhooshTechnologyService."

PosixTarget == <<"home", "Library", "Containers", "com.whoosh.whooshgame", "Data">>

PackageNames ==
    {<<MYWHOOSH_PREFIX_WINDOWS, "a">>, <<MYWHOOSH_PREFIX_WINDOWS, "b">>, <<"Microsoft.", "c">>}

startswith(name, prefix) == name[1] = prefix

\* What base_path.iterdir() can yield: at most MaxDirs entries.
Listings ==
    UNION { [1..n -> [name : PackageNames, is_dir : BOOLEAN, data_is_dir : BOOLEAN]] :
                n \in 0..MaxDirs }

\* The frames at the call of get_fitfile_location: os.name is posix, nt or
\* something else; on nt, iterdir is "" when it yields the listing and else the
\* exception it raises.
LocationStarts ==
    LET envs ==
            [os_name : {"posix"}, target_is_dir : BOOLEAN, iterdir : {""}, listing : {<<>>}]
            \cup [os_name : {"nt"}, target_is_dir : {FALSE}, iterdir : {""},
                  listing : Listings]
            \cup [os_name : {"nt"}, target_is_dir : {FALSE},
                  iterdir : {"PermissionError", "FileNotFoundError"}, listing : {<<>>}]
            \cup [os_name : {"java"}, target_is_dir : {FALSE}, iterdir : {""},
                  listing : {<<>>}]
    IN  { [pc |-> "enter", os_name |-> e.os_name, target_is_dir |-> e.target_is_dir,
           iterdir |-> e.iterdir, listing |-> e.listing,
           i |-> 1, target_path |-> NoPath, ret |-> NoPath, raised |-> ""] : e \in envs }

\* Lines 204-229 and 249-257: the dispatch on os.name, up to the first iterdir().
location_enter(f) ==
    IF f.os_name = "posix"
    THEN [f EXCEPT !.pc = "done",
                   !.ret = IF f.target_is_dir THEN PosixTarget ELSE NoPath]
    ELSE IF f.os_name = "nt"
    THEN IF f.iterdir = "" THEN [f EXCEPT !.pc = "iterdir"]
         ELSE [f EXCEPT !.pc = "done", !.ret = NoPath]
    ELSE [f EXCEPT !.pc = "done", !.ret = NoPath]

\* Lines 229-242: one directory of the listing.
location_directory(f) ==
    LET directory == f.listing[f.i]
        candidate_path == <<"home", "AppData", "Local", "Packages">> \o directory.name
                          \o <<"LocalCache", "Local", "MyWhoosh", "Content", "Data">>
    IN  IF directory.is_dir /\ startswith(directory.name, MYWHOOSH_PREFIX_WINDOWS)
           /\ directory.data_is_dir
        THEN [f EXCEPT !.target_path = candidate_path, !.pc = "found"]
        ELSE [f EXCEPT !.i = @ + 1]

LocationEnter ==
    /\ loc.pc = "enter"
    /\ loc' = location_enter(loc)
    /\ UNCHANGED <<records, added, lap_values, cadence_values, power_values,
                   heart_rate_values, pc, pkgs, bak, auth, recent, sav, upl, mn>>

LocationIterate ==
    /\ loc.pc = "iterdir"
    /\ loc.i <= Len(loc.listing)
    /\ loc' = location_directory(loc)
    /\ UNCHANGED <<records, added, lap_values, cadence_values, power_values,
                   heart_rate_values, pc, pkgs, bak, auth, recent, sav, upl, mn>>

\* Lines 244-248.
LocationReturn ==
    /\ \/ loc.pc = "found"
       \/ loc.pc = "iterdir" /\ loc.i > Len(loc.listing)
    /\ loc' = [loc EXCEPT !.pc = "done", !.ret = loc.target_path]
    /\ UNCHANGED <<records, added, lap_values, cadence_values, power_values,
                   heart_rate_values, pc, pkgs, bak, auth, recent, sav, upl, mn>>

SpecLocation ==
    /\ StartsIn({Idle}, LocationStarts, {Idle}, {Idle}, {Idle}, {Idle}, {Idle}, {Idle})
    /\ [][LocationEnter \/ LocationIterate \/ LocationReturn]_vars

SupportedOs(f) == f.os_name \in {"posix", "nt"}

\* The MyWhoosh data directory the function looks for exists.
DataDirectoryExists(f) ==
    \/ f.os_name = "posix" /\ f.target_is_dir
    \/ /\ f.os_name = "nt"
       /\ f.iterdir = ""
       /\ \E i \in 1..Len(f.listing) :
            /\ f.listing[i].is_dir
            /\ startswith(f.listing[i].name, MYWHOOSH_PREFIX_WINDOWS)
            /\ f.listing[i].data_is_dir

\* C19: get_fitfile_location raises RuntimeError when os.name is neither posix
\* nor nt, and returns None when the OS is supported but the MyWhoosh data
\* directory does not exist.
C19_RaisesOnUnsupportedOs ==
    loc.pc = "done" =>
        /\ ~SupportedOs(loc) => loc.raised = "RuntimeError"
        /\ SupportedOs(loc) /\ ~DataDirectoryExists(loc) => loc.ret = NoPath /\ loc.raised = ""

\* What the code does: it never raises; it returns None on an unsupported OS
\* and when the data directory does not exist, and a data directory otherwise.
C19_NeverRaises ==
    loc.pc = "done" =>
        /\ loc.raised = ""
        /\ ~SupportedOs(loc) \/ ~DataDirectoryExists(loc) => loc.ret = NoPath
        /\ SupportedOs(loc) /\ DataDirectoryExists(loc) => loc.ret # NoPath

\* get_fitfile_location has returned None on an unsupported OS.
C19_UnsupportedReturnsNone ==
    loc.pc = "done" /\ ~SupportedOs(loc) /\ loc.ret = NoPath /\ loc.raised = ""

(***************************************************************************)
(* get_backup_path.                                                        *)
(*                                                                         *)
(* The JSON file is missing, cannot be opened (IOError), is not JSON       *)
(* (JSONDecodeError), or holds a JSON value: an object, whose backup_path  *)
(* member is absent, null, a string or a number, or a value that is not an *)
(* object.  A string is the path it spells, the empty string being <<>>.   *)
(***************************************************************************)
\* The directories that exist.
Directories == {<<"backups">>, <<"chosen">>}

is_dir(path) == path \in Directories

\* The JSON file; backup_path is what data.get('backup_path') gives for a dict,
\* None when the member is absent.
JsonFiles ==
    [kind : {"missing", "IOError", "JSONDecodeError", "list", "str"},
     backup_path : {[type |-> "NoneType", v |-> <<>>]}]
    \cup [kind : {"dict"},
          backup_path : [type : {"str"}, v : {<<>>, <<"backups">>, <<"gone">>}]
                        \cup [type : {"NoneType"}, v : {<<>>}]
                        \cup [type : {"int"}, v : {<<"0">>, <<"7">>}]]

\* The frames at the call of get_backup_path: the JSON file, what
\* filedialog.askdirectory() would return (the empty string when cancelled) and
\* whether the file can be written.
BackupStarts ==
    { [pc |-> "enter", env |-> e, json_file |-> e.json_file, prompted |-> 0,
       backup_path |-> <<>>, ret |-> NoPath, raised |-> ""] :
        e \in [json_file : JsonFiles,
               askdirectory : {<<>>, <<"chosen">>, <<"gone">>},
               write_ok : BOOLEAN] }

\* Python truth of a stored value.
TruthyValue(x) ==
    CASE x.type = "str" -> x.v # <<>>
      [] x.type = "int" -> x.v # <<"0">>
      [] OTHER -> FALSE

\* A variant of backup_read that asks the object for another key than the one
\* backup_write stores: data.get gives None.
backup_read_other_key(f) ==
    LET file == f.json_file
    IN  IF file.kind \in {"IOError", "JSONDecodeError"}
        THEN [f EXCEPT !.pc = "done", !.ret = NoPath]
        ELSE IF file.kind # "dict"
        THEN [f EXCEPT !.pc = "done", !.raised = "AttributeError"]
        ELSE [f EXCEPT !.pc = "done", !.ret = NoPath]

\* Lines 274-286: the file exists.
backup_read(f) ==
    LET file == f.json_file
        backup_path == file.backup_path
    IN  IF file.kind \in {"IOError", "JSONDecodeError"}
        THEN [f EXCEPT !.pc = "done", !.ret = NoPath]
        ELSE IF file.kind # "dict"
        THEN [f EXCEPT !.pc = "done", !.raised = "AttributeError"]
        ELSE IF ~TruthyValue(backup_path) THEN [f EXCEPT !.pc = "done", !.ret = NoPath]
        ELSE IF backup_path.type # "str" THEN [f EXCEPT !.pc = "done", !.raised = "TypeError"]
        ELSE [f EXCEPT !.pc = "done",
                       !.ret = IF is_dir(backup_path.v) THEN backup_path.v ELSE NoPath]

\* Lines 288-295: the dialog.
backup_prompt(f) ==
    LET backup_path == f.env.askdirectory
    IN  IF backup_path = <<>>
        THEN [f EXCEPT !.prompted = @ + 1, !.pc = "done", !.ret = NoPath]
        ELSE [f EXCEPT !.prompted = @ + 1, !.backup_path = backup_path, !.pc = "write"]

\* Lines 296-303: the chosen path is written.
backup_write(f) ==
    IF f.env.write_ok
    THEN [f EXCEPT !.json_file = [kind |-> "dict",
                                  backup_path |-> [type |-> "str", v |-> f.backup_path]],
                   !.pc = "done", !.ret = f.backup_path]
    ELSE [f EXCEPT !.pc = "done", !.ret = NoPath]

BackupRead ==
    /\ bak.pc = "enter"
    /\ bak.json_file.kind # "missing"
    /\ bak' = backup_read(bak)
    /\ UNCHANGED <<records, added, lap_values, cadence_values, power_values,
                   heart_rate_values, pc, pkgs, loc, auth, recent, sav, upl, mn>>

BackupPrompt ==
    /\ bak.pc = "enter"
    /\ bak.json_file.kind = "missing"
    /\ bak' = backup_prompt(bak)
    /\ UNCHANGED <<records, added, lap_values, cadence_values, power_values,
                   heart_rate_values, pc, pkgs, loc, auth, recent, sav, upl, mn>>

BackupWrite ==
    /\ bak.pc = "write"
    /\ bak' = backup_write(bak)
    /\ UNCHANGED <<records, added, lap_values, cadence_values, power_values,
                   heart_rate_values, pc, pkgs, loc, auth, recent, sav, upl, mn>>

SpecBackup ==
    /\ StartsIn({Idle}, {Idle}, BackupStarts, {Idle}, {Idle}, {Idle}, {Idle}, {Idle})
    /\ [][BackupRead \/ BackupPrompt \/ BackupWrite]_vars

\* The JSON file exists and stores a path that is an existing directory.
StoresDirectory(file) ==
    file.kind = "dict" /\ file.backup_path.type = "str" /\ is_dir(file.backup_path.v)

\* The JSON file holds the object {"backup_path": path}.
Stores(file, path) ==
    file.kind = "dict" /\ file.backup_path = [type |-> "str", v |-> path]

\* C18: get_backup_path returns the stored path without prompting when the JSON
\* file stores an existing directory; prompts when the file does not exist,
\* saving and returning a chosen directory, and returning None with no file
\* left behind when the dialog is cancelled; and returns None without
\* prompting, the file untouched, when the file exists but is unreadable or
\* stores an invalid path.
C18_BackupPath ==
    bak.pc = "done" =>
        LET file == bak.env.json_file
            chosen == bak.env.askdirectory
        IN  /\ StoresDirectory(file) =>
                bak.raised = "" /\ bak.ret = file.backup_path.v /\ bak.prompted = 0
            /\ file.kind = "missing" =>
                /\ bak.raised = ""
                /\ bak.prompted = 1
                /\ chosen # <<>> => Stores(bak.json_file, chosen) /\ bak.ret = chosen
                /\ chosen = <<>> => bak.ret = NoPath /\ bak.json_file.kind = "missing"
            /\ file.kind # "missing" /\ ~StoresDirectory(file) =>
                /\ bak.raised = ""
                /\ bak.ret = NoPath
                /\ bak.prompted = 0
                /\ bak.json_file = file

\* What the code keeps of C18: the same, for a file that holds a JSON object
\* whose backup_path is absent, null or a string, and a write that succeeds.
C18_ObjectFiles ==
    bak.pc = "done" /\ bak.env.write_ok
    /\ bak.env.json_file.kind \notin {"list", "str"}
    /\ bak.env.json_file.backup_path.type # "int"
    => LET file == bak.env.json_file
           chosen == bak.env.askdirectory
       IN  /\ bak.raised = ""
           /\ StoresDirectory(file) => bak.ret = file.backup_path.v /\ bak.prompted = 0
           /\ file.kind = "missing" =>
                /\ bak.prompted = 1
                /\ chosen # <<>> => Stores(bak.json_file, chosen) /\ bak.ret = chosen
                /\ chosen = <<>> => bak.ret = NoPath /\ bak.json_file.kind = "missing"
           /\ file.kind # "missing" /\ ~StoresDirectory(file) =>
                bak.ret = NoPath /\ bak.prompted = 0 /\ bak.json_file = file

\* An AttributeError has left get_backup_path: the file held JSON that is not an object.
C18_AttributeErrorEscapes ==
    bak.pc = "done" /\ bak.raised = "AttributeError" /\ bak.env.json_file.kind = "list"

(***************************************************************************)
(* authenticate_to_garmin and get_credentials_for_garmin.                  *)
(*                                                                         *)
(* garth raises GarthException or its subclass GarthHTTPError; "" is a     *)
(* call that returns.  calls lists what was asked of garth and of the      *)
(* user, in order.                                                         *)
(***************************************************************************)
GarthOutcomes == {"", "GarthException", "GarthHTTPError"}

\* isinstance(exception, cls) for the two classes of garth.exc.
Catches(cls, exception) ==
    \/ exception = cls
    \/ cls = "GarthException" /\ exception = "GarthHTTPError"

\* The frames at the call of authenticate_to_garmin: whether TOKENS_PATH exists
\* and what garth.resume, garth.client.username and garth.login do.
AuthStarts ==
    [pc : {"enter"},
     env : [tokens_exist : BOOLEAN, resume : GarthOutcomes, username : GarthOutcomes,
            login : GarthOutcomes],
     calls : {<<>>}, ret : {FALSE}, raised : {""}]

\* A variant of get_credentials_for_garmin that calls garth.save in a finally
\* clause: whether or not the login returned.
get_credentials_for_garmin_save_in_finally(login) ==
    IF login = "" THEN [calls |-> <<"input", "login", "save">>, ret |-> TRUE, raised |-> ""]
    ELSE IF Catches("GarthHTTPError", login)
    THEN [calls |-> <<"input", "login", "save">>, ret |-> FALSE, raised |-> ""]
    ELSE [calls |-> <<"input", "login", "save">>, ret |-> FALSE, raised |-> login]

\* Lines 312-323: the prompt, garth.login and garth.save.
get_credentials_for_garmin(login) ==
    IF login = "" THEN [calls |-> <<"input", "login", "save">>, ret |-> TRUE, raised |-> ""]
    ELSE IF Catches("GarthHTTPError", login)
    THEN [calls |-> <<"input", "login">>, ret |-> FALSE, raised |-> ""]
    ELSE [calls |-> <<"input", "login">>, ret |-> FALSE, raised |-> login]

\* A variant of the outer handler: what get_credentials_for_garmin raises leaves the function.
outer_except_try_only(f, r) ==
    [f EXCEPT !.pc = "done", !.calls = @ \o r.calls, !.ret = r.ret, !.raised = r.raised]

\* Lines 347-349, for a call of get_credentials_for_garmin made inside the outer try.
outer_except(f, r) ==
    IF r.raised # "" /\ Catches("GarthException", r.raised)
    THEN [f EXCEPT !.pc = "done", !.calls = @ \o r.calls, !.ret = FALSE]
    ELSE [f EXCEPT !.pc = "done", !.calls = @ \o r.calls, !.ret = r.ret, !.raised = r.raised]

\* Lines 334-349.  Without tokens, or when garth.client.username raises a
\* GarthException after a resume that returned, get_credentials_for_garmin is
\* called; a resume that raises a GarthException gives False.
authenticate_to_garmin(f) ==
    LET resumed == [f EXCEPT !.calls = Append(@, "resume")]
        credentials(g) == outer_except(g, get_credentials_for_garmin(g.env.login))
    IN  IF ~f.env.tokens_exist THEN credentials(f)
        ELSE IF f.env.resume # ""
        THEN IF Catches("GarthException", f.env.resume)
             THEN [resumed EXCEPT !.pc = "done", !.ret = FALSE]
             ELSE [resumed EXCEPT !.pc = "done", !.raised = f.env.resume]
        ELSE IF f.env.username = "" THEN [resumed EXCEPT !.pc = "done", !.ret = TRUE]
        ELSE IF Catches("GarthException", f.env.username) THEN credentials(resumed)
        ELSE [resumed EXCEPT !.pc = "done", !.raised = f.env.username]

Authenticate ==
    /\ auth.pc = "enter"
    /\ auth' = authenticate_to_garmin(auth)
    /\ UNCHANGED <<records, added, lap_values, cadence_values, power_values,
                   heart_rate_values, pc, pkgs, loc, bak, recent, sav, upl, mn>>

SpecAuth ==
    /\ StartsIn({Idle}, {Idle}, {Idle}, AuthStarts, {Idle}, {Idle}, {Idle}, {Idle})
    /\ [][Authenticate]_vars

\* How many times call occurs in calls.
Count(calls, call) == Cardinality({i \in 1..Len(calls) : calls[i] = call})

\* C14: with stored tokens the session is resumed and a valid session gives True
\* with no prompt; an expired session, or no tokens, prompts exactly once and
\* gives the outcome of that login; a resume that fails with an authentication
\* exception gives False with no prompt; no authentication exception leaves the
\* function.
C14_Authenticate ==
    auth.pc = "done" =>
        LET e == auth.env
            prompts == Count(auth.calls, "input")
        IN  /\ auth.raised = ""
            /\ e.tokens_exist => Count(auth.calls, "resume") = 1 /\ auth.calls[1] = "resume"
            /\ e.tokens_exist /\ e.resume = "" /\ e.username = "" => auth.ret /\ prompts = 0
            /\ \/ e.tokens_exist /\ e.resume = "" /\ e.username # ""
               \/ ~e.tokens_exist
               => /\ prompts = 1
                  /\ Count(auth.calls, "login") = 1
                  /\ auth.ret <=> e.login = ""
            /\ e.tokens_exist /\ e.resume # "" => ~auth.ret /\ prompts = 0

\* The session had expired and the login that followed raised a GarthException
\* that is not an HTTP error.
C14_Witness ==
    /\ auth.pc = "done"
    /\ auth.env.tokens_exist /\ auth.env.resume = "" /\ auth.env.username = "GarthException"
    /\ auth.env.login = "GarthException"
    /\ auth.calls = <<"resume", "input", "login">>
    /\ ~auth.ret

(***************************************************************************)
(* upload_fit_file_to_garmin.                                              *)
(*                                                                         *)
(* files is the set of files that exist.  The argument is None, a file of  *)
(* the backup directory, or the directory itself.                          *)
(***************************************************************************)
exists(path, files) == path \in files \/ path \in Directories

\* open(): "" when it returns the file, else the OSError.
OpenOutcomes == {"", "PermissionError"}

\* garth.client.upload: returns, or raises an HTTP error, another garth error, or anything else.
UploadOutcomes == GarthOutcomes \cup {"ConnectionError"}

\* The frames at the call of upload_fit_file_to_garmin.
UploadStarts ==
    [pc : {"enter"},
     env : [new_file_path : {NoPath, <<"backups">>, <<"backups", "a.fit">>,
                             <<"backups", "b.fit">>},
            files : SUBSET {<<"backups", "a.fit">>, <<"backups", "b.fit">>},
            open : OpenOutcomes,
            upload : UploadOutcomes],
     calls : {<<>>}, ret : {FALSE}, raised : {""}]

\* A variant of the except clauses: only the HTTP error is handled.
upload_except_http_only(f, exception) ==
    IF Catches("GarthHTTPError", exception)
    THEN [f EXCEPT !.pc = "done", !.calls = Append(@, "log duplicate"), !.ret = FALSE]
    ELSE [f EXCEPT !.pc = "done", !.raised = exception]

\* Lines 576-581: the two except clauses.
upload_except(f, exception) ==
    IF Catches("GarthHTTPError", exception)
    THEN [f EXCEPT !.pc = "done", !.calls = Append(@, "log duplicate"), !.ret = FALSE]
    ELSE [f EXCEPT !.pc = "done", !.calls = Append(@, "log error"), !.ret = FALSE]

\* Lines 566-581.  Opening a directory raises IsADirectoryError.
upload_fit_file_to_garmin(f) ==
    LET path == f.env.new_file_path
        opened == IF path \in Directories THEN "IsADirectoryError" ELSE f.env.open
        sent == [f EXCEPT !.calls = Append(@, "upload")]
    IN  IF path = NoPath \/ ~exists(path, f.env.files)
        THEN [f EXCEPT !.pc = "done", !.ret = FALSE]
        ELSE IF opened # "" THEN upload_except(f, opened)
        ELSE IF f.env.upload # "" THEN upload_except(sent, f.env.upload)
        ELSE [sent EXCEPT !.pc = "done", !.ret = TRUE]

Upload ==
    /\ upl.pc = "enter"
    /\ upl' = upload_fit_file_to_garmin(upl)
    /\ UNCHANGED <<records, added, lap_values, cadence_values, power_values,
                   heart_rate_values, pc, pkgs, loc, bak, auth, recent, sav, mn>>

SpecUpload ==
    /\ StartsIn({Idle}, {Idle}, {Idle}, {Idle}, {Idle}, {Idle}, UploadStarts, {Idle})
    /\ [][Upload]_vars

\* C15: upload_fit_file_to_garmin returns True exactly when the file exists and
\* the upload call returns; it returns False with no upload attempted for None
\* or a path that does not exist, False when the upload raises an HTTP error
\* (logged as a duplicate activity) or anything else, and raises nothing.
C15_UploadResult ==
    upl.pc = "done" =>
        LET e == upl.env
            attempts == Count(upl.calls, "upload")
            present == e.new_file_path # NoPath /\ exists(e.new_file_path, e.files)
        IN  /\ upl.raised = ""
            /\ attempts <= 1
            /\ upl.ret <=> present /\ attempts = 1 /\ e.upload = ""
            /\ ~present => ~upl.ret /\ attempts = 0
            /\ attempts = 1 /\ e.upload # "" => ~upl.ret
            /\ attempts = 1 /\ e.upload = "GarthHTTPError" =>
                upl.calls = <<"upload", "log duplicate">>

\* The upload of an existing file raised something that is not an HTTP error.
C15_Witness ==
    /\ upl.pc = "done"
    /\ upl.env.new_file_path \in upl.env.files
    /\ upl.env.upload = "ConnectionError"
    /\ upl.calls = <<"upload", "log error">>
    /\ ~upl.ret

(***************************************************************************)
(* get_most_recent_fit_file.                                               *)
(*                                                                         *)
(* A file name is a sequence of tokens: a run of letters, or one of the    *)
(* characters '-', '.', '_' or a digit.  The directory listing is the      *)
(* sequence of names glob walks, in the order the file system gives them.  *)
(***************************************************************************)
MaxFiles == 2

DigitValue == [c \in {"0", "1", "2", "3", "4", "5", "6", "7", "8", "9"} |->
                CASE c = "0" -> 0 [] c = "1" -> 1 [] c = "2" -> 2 [] c = "3" -> 3
                  [] c = "4" -> 4 [] c = "5" -> 5 [] c = "6" -> 6 [] c = "7" -> 7
                  [] c = "8" -> 8 [] c = "9" -> 9]

\* The text a name can carry between "MyNewActivity-" and ".fit".
VersionTexts ==
    {<<"3", ".", "7", ".", "2">>,
     <<"3", ".", "1", "0", ".", "0">>,
     <<"3", ".", "7">>,
     <<"0">>,
     <<"0", "3", ".", "7">>,
     <<"beta">>,
     <<>>,
     <<"4", "-", "1">>,
     <<"v", "3", "_", "7">>}

ActivityNames == { <<"MyNewActivity", "-">> \o t \o <<".", "fit">> : t \in VersionTexts }

OtherNames ==
    {<<"other", "_", "file", ".", "fit">>,
     <<"MyNewActivity", "-", "9", ".", "txt">>,
     <<"MyOldActivity", "-", "9", ".", "fit">>}

\* Listings of at most MaxFiles files, no name twice.
DirectoryListings ==
    { l \in UNION { [1..n -> ActivityNames \cup OtherNames] : n \in 0..MaxFiles } :
        \A i, j \in 1..Len(l) : l[i] = l[j] => i = j }

\* fnmatch(name, "MyNewActivity-*.fit")
Matches(name) ==
    /\ Len(name) >= 4
    /\ name[1] = "MyNewActivity" /\ name[2] = "-"
    /\ name[Len(name) - 1] = "." /\ name[Len(name)] = "fit"

\* fitfile_location.glob("MyNewActivity-*.fit"): the matching names, in listing order.
glob(listing) == SelectSeq(listing, Matches)

\* The last index of s that holds c, 0 when there is none.
LastIndex(s, c) ==
    LET at == {i \in 1..Len(s) : s[i] = c}
    IN  IF at = {} THEN 0 ELSE CHOOSE i \in at : \A j \in at : j <= i

\* Path.stem: the name without its last suffix.
stem(name) ==
    LET dot == LastIndex(name, ".")
    IN  IF dot <= 1 THEN name ELSE SubSeq(name, 1, dot - 1)

\* s.split('-')[-1]
split_last(s) == SubSeq(s, LastIndex(s, "-") + 1, Len(s))

\* re.findall(r'(\d+)', s): the maximal runs of digits, left to right.
RECURSIVE findall_digits(_, _)
findall_digits(s, run) ==
    IF s = <<>> THEN (IF run = <<>> THEN <<>> ELSE <<run>>)
    ELSE IF Head(s) \in DOMAIN DigitValue THEN findall_digits(Tail(s), Append(run, Head(s)))
    ELSE (IF run = <<>> THEN <<>> ELSE <<run>>) \o findall_digits(Tail(s), <<>>)

\* int() of a run of digits.
RECURSIVE int_of_digits(_)
int_of_digits(run) ==
    IF run = <<>> THEN 0
    ELSE 10 * int_of_digits(SubSeq(run, 1, Len(run) - 1)) + DigitValue[run[Len(run)]]

\* tuple(map(int, numbers))
Numbers(name) ==
    LET numbers == findall_digits(split_last(stem(name)), <<>>)
    IN  [i \in 1..Len(numbers) |-> int_of_digits(numbers[i])]

extract_version(name) ==
    IF Numbers(name) # <<>> THEN Numbers(name) ELSE <<0>>

\* Python's a < b on tuples of integers.
TupleLess(a, b) ==
    \/ /\ Len(a) < Len(b)
       /\ \A i \in 1..Len(a) : a[i] = b[i]
    \/ \E k \in 1..Len(a) :
        /\ k <= Len(b)
        /\ \A i \in 1..(k - 1) : a[i] = b[i]
        /\ a[k] < b[k]

\* A variant of the sort: ascending.
RECURSIVE sorted_ascending(_)
sorted_ascending(files) ==
    IF files = <<>> THEN <<>>
    ELSE LET rest == sorted_ascending(SubSeq(files, 1, Len(files) - 1))
             x == files[Len(files)]
             before == {i \in 1..Len(rest) : ~TupleLess(extract_version(x), extract_version(rest[i]))}
             n == Cardinality(before)
         IN  SubSeq(rest, 1, n) \o <<x>> \o SubSeq(rest, n + 1, Len(rest))

\* sorted(fit_files, key=extract_version, reverse=True): descending keys, equal
\* keys in their original order.
RECURSIVE sorted_reverse(_)
sorted_reverse(files) ==
    IF files = <<>> THEN <<>>
    ELSE LET rest == sorted_reverse(SubSeq(files, 1, Len(files) - 1))
             x == files[Len(files)]
             before == {i \in 1..Len(rest) : ~TupleLess(extract_version(rest[i]), extract_version(x))}
             n == Cardinality(before)
         IN  SubSeq(rest, 1, n) \o <<x>> \o SubSeq(rest, n + 1, Len(rest))

RecentStart(listing) ==
    [pc |-> "glob", listing |-> listing, fit_files |-> <<>>, ret |-> NoPath]

\* Lines 489-491.
recent_glob(f) ==
    LET fit_files == glob(f.listing)
    IN  IF fit_files = <<>> THEN [f EXCEPT !.pc = "done", !.ret = NoPath]
        ELSE [f EXCEPT !.pc = "sort", !.fit_files = fit_files]

\* Lines 499-500.
recent_sort(f) ==
    LET fit_files == sorted_reverse(f.fit_files)
    IN  [f EXCEPT !.pc = "done", !.fit_files = fit_files, !.ret = fit_files[1]]

RecentGlob ==
    /\ recent.pc = "glob"
    /\ recent' = recent_glob(recent)
    /\ UNCHANGED <<records, added, lap_values, cadence_values, power_values,
                   heart_rate_values, pc, pkgs, loc, bak, auth, sav, upl, mn>>

RecentSort ==
    /\ recent.pc = "sort"
    /\ recent' = recent_sort(recent)
    /\ UNCHANGED <<records, added, lap_values, cadence_values, power_values,
                   heart_rate_values, pc, pkgs, loc, bak, auth, sav, upl, mn>>

SpecRecent ==
    /\ StartsIn({Idle}, {Idle}, {Idle}, {Idle}, {RecentStart(l) : l \in DirectoryListings},
                {Idle}, {Idle}, {Idle})
    /\ [][RecentGlob \/ RecentSort]_vars

\* The matching files of the listing.
Matching(listing) == {listing[i] : i \in {j \in 1..Len(listing) : Matches(listing[j])}}

\* C16 as stated: None when nothing matches; otherwise a matching file whose
\* tuple of the integers found after the last '-' is greater than or equal to
\* that of every other matching file; never a file that does not match.
C16_GreatestNumbers ==
    recent.pc = "done" =>
        LET matching == Matching(recent.listing)
        IN  /\ matching = {} => recent.ret = NoPath
            /\ matching # {} =>
                /\ recent.ret \in matching
                /\ \A other \in matching : ~TupleLess(Numbers(recent.ret), Numbers(other))

\* C16, amended: the same, with the version of a name that has no digit after
\* its last '-' read as (0,) rather than as the empty tuple.
C16_GreatestVersion ==
    recent.pc = "done" =>
        LET matching == Matching(recent.listing)
        IN  /\ matching = {} => recent.ret = NoPath
            /\ matching # {} =>
                /\ recent.ret \in matching
                /\ \A other \in matching :
                    ~TupleLess(extract_version(recent.ret), extract_version(other))

\* The function chose between two matching files of different versions, next to
\* a file that does not match.
C16_Witness ==
    /\ recent.pc = "done"
    /\ recent.ret # NoPath
    /\ \E other \in Matching(recent.listing) :
        TupleLess(extract_version(other), extract_version(recent.ret))
    /\ recent.ret # recent.listing[1]

\* Lines 489-500 on a directory listing.
get_most_recent_fit_file(listing) ==
    LET g == recent_glob(RecentStart(listing))
    IN  IF g.pc = "sort" THEN recent_sort(g).ret ELSE g.ret

(***************************************************************************)
(* cleanup_and_save_fit_file, with generate_new_filename and the call of   *)
(* cleanup_fit_file.                                                       *)
(*                                                                         *)
(* files is the content of the backup location: for each path that exists, *)
(* whether the file is complete and the messages it holds.  A call of      *)
(* fit_tool inside cleanup_fit_file returns or raises; failed names the    *)
(* call that raised, "" when none did.                                     *)
(***************************************************************************)
\* A variant of generate_new_filename that returns the name of the file as it is.
generate_new_filename_plain(fit_file) == fit_file[Len(fit_file)]

\* f"{fit_file.stem}_{timestamp}.fit", for the time "2025-01-01_000000".
generate_new_filename(fit_file) ==
    stem(fit_file[Len(fit_file)]) \o <<"_", "2025-01-01_000000", ".", "fit">>

\* The decoded content of the input file.
Message(kind, fields, i) == [kind |-> kind, obj |-> <<"decoded", i>>, fields |-> fields]

InputStreams ==
    {<<>>,
     <<Message("file_creator", Table(FileCreatorFieldNames, 0), 1),
       Message("record", Table(RecordFieldNames, 1), 2),
       Message("record", Table(RecordFieldNames, 3), 3),
       Message("session", Without(Table(SessionFieldNames, 1), Range(AVG_FIELDS)), 4)>>}

\* Where cleanup_fit_file can raise: FitFile.from_file, a call inside the loop,
\* builder.build(), or to_file before or after it has created the output file.
CleanupFailures == {"", "from_file", "loop", "build", "to_file open", "to_file write"}

\* Lines 394-476 on the decoded stream: whether it raised, and the backup location afterwards.
cleanup_fit_file(stream, failed, files, new_file_path) ==
    LET w == Run(Start, stream)
        others == {x \in files : x.path # new_file_path}
    IN  IF failed \in {"from_file", "loop", "build", "to_file open"} \/ w.raised
        THEN [raised |-> TRUE, files |-> files]
        ELSE IF failed = "to_file write"
        THEN [raised |-> TRUE,
              files |-> others \cup {[path |-> new_file_path, complete |-> FALSE,
                                      messages |-> <<>>]}]
        ELSE [raised |-> FALSE,
              files |-> others \cup {[path |-> new_file_path, complete |-> TRUE,
                                      messages |-> w.added]}]

SaveStart(a) ==
    [pc |-> "enter", fitfile_location |-> a.fitfile_location,
     location_is_dir |-> a.location_is_dir, backup_location |-> a.backup_location,
     listing |-> <<>>, fit_file |-> NoPath, new_file_path |-> NoPath,
     failed |-> "", files |-> {}, calls |-> <<>>, ret |-> NoPath]

\* Lines 525-527.
save_enter(f) ==
    IF f.fitfile_location = NoPath \/ ~f.location_is_dir
    THEN [f EXCEPT !.pc = "done", !.ret = NoPath]
    ELSE [f EXCEPT !.pc = "find"]

\* Lines 529-536.
save_find(f, listing) ==
    LET name == get_most_recent_fit_file(listing)
    IN  IF name = NoPath THEN [f EXCEPT !.listing = listing, !.pc = "done", !.ret = NoPath]
        ELSE [f EXCEPT !.listing = listing, !.pc = "backup",
                       !.fit_file = Append(f.fitfile_location, name)]

\* A variant of the backup test: the location is not looked at.
save_backup_unchecked(f) ==
    [f EXCEPT !.pc = "cleanup",
              !.new_file_path = Append(f.backup_location, generate_new_filename(f.fit_file))]

\* Lines 536-543.
save_backup(f) ==
    IF f.backup_location = NoPath \/ ~exists(f.backup_location, {})
    THEN [f EXCEPT !.pc = "done", !.ret = NoPath]
    ELSE [f EXCEPT !.pc = "cleanup",
                   !.new_file_path = Append(f.backup_location,
                                            generate_new_filename(f.fit_file))]

\* Lines 545-553.
save_cleanup(f, stream, failed) ==
    LET r == cleanup_fit_file(stream, failed, f.files, f.new_file_path)
        g == [f EXCEPT !.calls = Append(@, <<"cleanup_fit_file", f.fit_file, f.new_file_path>>),
                       !.failed = failed, !.files = r.files, !.pc = "done"]
    IN  IF r.raised THEN [g EXCEPT !.ret = NoPath] ELSE [g EXCEPT !.ret = f.new_file_path]

SaveEnter ==
    /\ sav.pc = "enter"
    /\ sav' = save_enter(sav)
    /\ UNCHANGED <<records, added, lap_values, cadence_values, power_values,
                   heart_rate_values, pc, pkgs, loc, bak, auth, recent, upl, mn>>

SaveFind ==
    /\ sav.pc = "find"
    /\ \E listing \in DirectoryListings : sav' = save_find(sav, listing)
    /\ UNCHANGED <<records, added, lap_values, cadence_values, power_values,
                   heart_rate_values, pc, pkgs, loc, bak, auth, recent, upl, mn>>

SaveBackup ==
    /\ sav.pc = "backup"
    /\ sav' = save_backup(sav)
    /\ UNCHANGED <<records, added, lap_values, cadence_values, power_values,
                   heart_rate_values, pc, pkgs, loc, bak, auth, recent, upl, mn>>

SaveCleanup ==
    /\ sav.pc = "cleanup"
    /\ \E stream \in InputStreams, failed \in CleanupFailures :
        sav' = save_cleanup(sav, stream, failed)
    /\ UNCHANGED <<records, added, lap_values, cadence_values, power_values,
                   heart_rate_values, pc, pkgs, loc, bak, auth, recent, upl, mn>>

\* The arguments: the FIT directory is None, a directory or no directory; the
\* backup location is None, exists or is missing.
SpecSave ==
    /\ StartsIn({Idle}, {Idle}, {Idle}, {Idle}, {Idle},
                {SaveStart(a) : a \in [fitfile_location : {NoPath, PosixTarget},
                                       location_is_dir : BOOLEAN,
                                       backup_location : {NoPath, <<"backups">>, <<"gone">>}]},
                {Idle}, {Idle})
    /\ [][SaveEnter \/ SaveFind \/ SaveBackup \/ SaveCleanup]_vars

\* The paths directly inside a directory.
Inside(path, directory) ==
    path # NoPath /\ Len(path) = Len(directory) + 1
    /\ SubSeq(path, 1, Len(directory)) = directory

\* C17: cleanup_and_save_fit_file returns None, calls cleanup_fit_file not at
\* all and creates no file when the FIT directory is missing or no directory,
\* when no FIT file matches, or when the backup location is missing; otherwise
\* it calls cleanup_fit_file exactly once, on the most recent FIT file, and
\* when that call succeeds returns a path inside the backup location.
C17_CleanupAndSave ==
    sav.pc = "done" =>
        LET early == \/ sav.fitfile_location = NoPath
                     \/ ~sav.location_is_dir
                     \/ Matching(sav.listing) = {}
                     \/ sav.backup_location = NoPath
                     \/ ~exists(sav.backup_location, {})
        IN  /\ early => sav.ret = NoPath /\ sav.calls = <<>> /\ sav.files = {}
            /\ ~early =>
                /\ Len(sav.calls) = 1
                /\ sav.calls[1][1] = "cleanup_fit_file"
                /\ sav.calls[1][2] =
                    Append(sav.fitfile_location, get_most_recent_fit_file(sav.listing))
                /\ sav.failed = "" =>
                    /\ Inside(sav.ret, sav.backup_location)
                    /\ \E x \in sav.files : x.path = sav.ret /\ x.complete

\* cleanup_fit_file was called once, on the greater of two versions, and the
\* path of the file it wrote was returned.
C17_Witness ==
    /\ sav.pc = "done"
    /\ Len(sav.calls) = 1
    /\ Cardinality(Matching(sav.listing)) = 2
    /\ sav.ret = Append(sav.backup_location,
                        <<"MyNewActivity", "-", "3", ".", "1", "0", ".", "0",
                          "_", "2025-01-01_000000", ".", "fit">>)
    /\ \E x \in sav.files : x.path = sav.ret /\ x.complete /\ Len(x.messages) = 4

(***************************************************************************)
(* main.                                                                   *)
(*                                                                         *)
(* A step of main calls a function, which starts the function's frame in   *)
(* one of its environments, and, once the function is done, takes its      *)
(* result and drops the frame.  calls lists the calls main has made, each  *)
(* with its argument (NoPath where the model keeps none), whether it       *)
(* succeeded and the path it returned.                                     *)
(***************************************************************************)
\* Lines 174-191: the imports succeed when both packages, and the modules named, can be imported.
import_required_modules(env, modules_ok) == AllImportable(env) /\ modules_ok

\* A variant of the order of the steps: the file is cleaned before the login.
MainSteps_clean_before_login ==
    <<"ensure_packages", "import_required_modules", "get_fitfile_location",
      "get_backup_path", "cleanup_and_save_fit_file", "authenticate_to_garmin",
      "upload_fit_file_to_garmin">>

\* The steps of main, in the order of lines 592-626.
MainSteps ==
    <<"ensure_packages", "import_required_modules", "get_fitfile_location",
      "get_backup_path", "authenticate_to_garmin", "cleanup_and_save_fit_file",
      "upload_fit_file_to_garmin">>

MainStart ==
    [pc |-> MainSteps[1], env |-> [p \in Range(required_packages) |-> "absent"],
     fitfile_location |-> NoPath, backup_location |-> NoPath, new_file_path |-> NoPath,
     failed |-> "", files |-> {}, calls |-> <<>>, ret |-> None, raised |-> ""]

\* "if not step(): return 1", for a step that returned ok, or raised; the step
\* after it comes next, "done" after the last.
main_step(f, name, arg, ok, path, raised) ==
    LET g == [f EXCEPT !.calls = Append(@, [name |-> name, arg |-> arg, ok |-> ok,
                                            path |-> path])]
        i == IndexOf(MainSteps, name)
    IN  IF raised # "" THEN [g EXCEPT !.pc = "done", !.raised = raised]
        ELSE IF ~ok THEN [g EXCEPT !.pc = "done", !.ret = 1]
        ELSE [g EXCEPT !.pc = IF i < Len(MainSteps) THEN MainSteps[i + 1] ELSE "done"]

\* Lines 592-594.
MainEnsurePackages ==
    /\ mn.pc = "ensure_packages"
    /\ \/ /\ pkgs = Idle
          /\ pkgs' \in PackagesStarts
          /\ mn' = mn
       \/ /\ pkgs.pc = "done"
          /\ pkgs' = Idle
          /\ mn' = [main_step(mn, "ensure_packages", NoPath, pkgs.ret, NoPath, "")
                        EXCEPT !.env = pkgs.env]
    /\ UNCHANGED <<records, added, lap_values, cadence_values, power_values,
                   heart_rate_values, pc, loc, bak, auth, recent, sav, upl>>

\* Lines 597-599.
MainImport ==
    /\ mn.pc = "import_required_modules"
    /\ \E modules_ok \in BOOLEAN :
        mn' = main_step(mn, "import_required_modules", NoPath,
                        import_required_modules(mn.env, modules_ok), NoPath, "")
    /\ UNCHANGED <<records, added, lap_values, cadence_values, power_values,
                   heart_rate_values, pc, pkgs, loc, bak, auth, recent, sav, upl>>

\* Lines 602-605.
MainLocation ==
    /\ mn.pc = "get_fitfile_location"
    /\ \/ /\ loc = Idle
          /\ loc' \in LocationStarts
          /\ mn' = mn
       \/ /\ loc.pc = "done"
          /\ loc' = Idle
          /\ mn' = [main_step(mn, "get_fitfile_location", NoPath, loc.ret # NoPath,
                              loc.ret, loc.raised)
                        EXCEPT !.fitfile_location = loc.ret]
    /\ UNCHANGED <<records, added, lap_values, cadence_values, power_values,
                   heart_rate_values, pc, pkgs, bak, auth, recent, sav, upl>>

\* Lines 608-611.
MainBackup ==
    /\ mn.pc = "get_backup_path"
    /\ \/ /\ bak = Idle
          /\ bak' \in BackupStarts
          /\ mn' = mn
       \/ /\ bak.pc = "done"
          /\ bak' = Idle
          /\ mn' = [main_step(mn, "get_backup_path", NoPath, bak.ret # NoPath,
                              bak.ret, bak.raised)
                        EXCEPT !.backup_location = bak.ret]
    /\ UNCHANGED <<records, added, lap_values, cadence_values, power_values,
                   heart_rate_values, pc, pkgs, loc, auth, recent, sav, upl>>

\* Lines 614-616.
MainAuthenticate ==
    /\ mn.pc = "authenticate_to_garmin"
    /\ \/ /\ auth = Idle
          /\ auth' \in AuthStarts
          /\ mn' = mn
       \/ /\ auth.pc = "done"
          /\ auth' = Idle
          /\ mn' = main_step(mn, "authenticate_to_garmin", NoPath, auth.ret, NoPath,
                             auth.raised)
    /\ UNCHANGED <<records, added, lap_values, cadence_values, power_values,
                   heart_rate_values, pc, pkgs, loc, bak, recent, sav, upl>>

\* Lines 619-622.  Whether fitfile_location still is a directory is the file system's answer.
MainCleanup ==
    /\ mn.pc = "cleanup_and_save_fit_file"
    /\ \/ /\ sav = Idle
          /\ \E is_dir_now \in BOOLEAN :
                sav' = SaveStart([fitfile_location |-> mn.fitfile_location,
                                  location_is_dir |-> is_dir_now,
                                  backup_location |-> mn.backup_location])
          /\ mn' = mn
       \/ /\ sav.pc = "done"
          /\ sav' = Idle
          /\ mn' = [main_step(mn, "cleanup_and_save_fit_file", NoPath, sav.ret # NoPath,
                              sav.ret, "")
                        EXCEPT !.new_file_path = sav.ret, !.failed = sav.failed,
                               !.files = sav.files]
    /\ UNCHANGED <<records, added, lap_values, cadence_values, power_values,
                   heart_rate_values, pc, pkgs, loc, bak, auth, recent, upl>>

\* Lines 625-628: the upload, whose result is not looked at, and return 0.
MainUpload ==
    /\ mn.pc = "upload_fit_file_to_garmin"
    /\ \/ /\ upl = Idle
          /\ \E open \in OpenOutcomes, upload \in UploadOutcomes :
                upl' = [pc |-> "enter",
                        env |-> [new_file_path |-> mn.new_file_path,
                                 files |-> {x.path : x \in mn.files},
                                 open |-> open, upload |-> upload],
                        calls |-> <<>>, ret |-> FALSE, raised |-> ""]
          /\ mn' = mn
       \/ /\ upl.pc = "done"
          /\ upl' = Idle
          /\ LET g == main_step(mn, "upload_fit_file_to_garmin", mn.new_file_path,
                                upl.ret, NoPath, upl.raised)
             IN  mn' = IF g.raised # "" THEN g ELSE [g EXCEPT !.pc = "done", !.ret = 0]
    /\ UNCHANGED <<records, added, lap_values, cadence_values, power_values,
                   heart_rate_values, pc, pkgs, loc, bak, auth, recent, sav>>

\* main, and the functions it calls.
SpecMain ==
    /\ StartsIn({Idle}, {Idle}, {Idle}, {Idle}, {Idle}, {Idle}, {Idle}, {MainStart})
    /\ [][\/ MainEnsurePackages \/ MainImport \/ MainLocation \/ MainBackup
          \/ MainAuthenticate \/ MainCleanup \/ MainUpload
          \/ PackagesLoad \/ PackagesIterate \/ PackagesReturn
          \/ LocationEnter \/ LocationIterate \/ LocationReturn
          \/ BackupRead \/ BackupPrompt \/ BackupWrite
          \/ Authenticate
          \/ SaveEnter \/ SaveFind \/ SaveBackup \/ SaveCleanup
          \/ Upload]_vars

\* The calls main has made of the step name.
CallsOf(name) == {i \in 1..Len(mn.calls) : mn.calls[i].name = name}

\* C13: main calls its steps in the order ensure packages, import modules,
\* locate the FIT directory, get the backup path, authenticate, clean and save,
\* upload; a step is called only when every earlier one succeeded; the upload
\* is called at most once and only with the path a successful clean-and-save
\* returned; and no cleaned file exists before a successful authentication.
C13_StepOrder ==
    LET order == <<"ensure_packages", "import_required_modules", "get_fitfile_location",
                   "get_backup_path", "authenticate_to_garmin",
                   "cleanup_and_save_fit_file", "upload_fit_file_to_garmin">>
        n == Len(mn.calls)
    IN  /\ n <= Len(order)
        /\ \A i \in 1..n : mn.calls[i].name = order[i]
        /\ \A i \in 1..(n - 1) : mn.calls[i].ok
        /\ \A i \in 1..n : ~mn.calls[i].ok /\ i < Len(order) => mn.pc = "done"
        /\ Cardinality(CallsOf("upload_fit_file_to_garmin")) <= 1
        /\ \A i \in CallsOf("upload_fit_file_to_garmin") :
            \E j \in CallsOf("cleanup_and_save_fit_file") :
                j < i /\ mn.calls[j].ok /\ mn.calls[i].arg = mn.calls[j].path
                /\ mn.calls[i].arg # NoPath
        /\ mn.files # {} =>
            \E i \in CallsOf("authenticate_to_garmin"), j \in CallsOf("cleanup_and_save_fit_file") :
                i < j /\ mn.calls[i].ok

\* main has made all seven calls, the upload with the path of the cleaned file.
C13_Witness ==
    /\ mn.pc = "done"
    /\ Len(mn.calls) = 7
    /\ mn.calls[7].arg = mn.new_file_path
    /\ \E x \in mn.files : x.path = mn.new_file_path /\ x.complete

\* main has returned code, with no exception.
Returned(code) == mn.pc = "done" /\ mn.raised = "" /\ mn.ret = code

\* cleanup_fit_file was called and raised.
CleanupRaised == mn.failed # ""

\* C11: when decoding the input, processing a message or building the output
\* raises, no output file, complete or partial, exists at the backup location
\* afterwards, cleanup_and_save_fit_file returns None, main returns 1 and the
\* upload is never called.
C11_NoOutputOnError ==
    mn.pc = "done" /\ CleanupRaised =>
        /\ mn.files = {}
        /\ mn.new_file_path = NoPath
        /\ Returned(1)
        /\ CallsOf("upload_fit_file_to_garmin") = {}

\* What the code keeps of C11: None, exit code 1 and no upload after any
\* failure, and no file after a failure that precedes the writing.
C11_NoUploadOnError ==
    mn.pc = "done" /\ CleanupRaised =>
        /\ mn.failed # "to_file write" => mn.files = {}
        /\ mn.new_file_path = NoPath
        /\ Returned(1)
        /\ CallsOf("upload_fit_file_to_garmin") = {}

\* main has returned 1 and a partial file is left at the backup location.
C11_PartialFileLeft ==
    /\ Returned(1)
    /\ mn.failed = "to_file write"
    /\ \E x \in mn.files : Inside(x.path, mn.backup_location) /\ ~x.complete

\* Every one of the seven steps was called and succeeded.
AllStepsSucceeded ==
    /\ Len(mn.calls) = Len(MainSteps)
    /\ \A i \in 1..Len(mn.calls) : mn.calls[i].ok

\* C12: when main returns, it returns 0 if all seven steps succeeded and 1 if
\* any of them failed.
C12_ExitCode ==
    mn.pc = "done" /\ mn.raised = "" =>
        /\ AllStepsSucceeded => mn.ret = 0
        /\ ~AllStepsSucceeded => mn.ret = 1

\* What the code keeps of C12: 0 when all seven steps succeed, and 1 when one of
\* the first six steps returns a failure.
C12_ExitCodeBeforeUpload ==
    mn.pc = "done" /\ mn.raised = "" =>
        /\ AllStepsSucceeded => mn.ret = 0
        /\ (\E i \in 1..Len(mn.calls) :
                ~mn.calls[i].ok /\ mn.calls[i].name # "upload_fit_file_to_garmin")
            => mn.ret = 1

\* main has returned 0 although the upload failed.
C12_UploadFailedExitZero ==
    /\ Returned(0)
    /\ \E i \in CallsOf("upload_fit_file_to_garmin") : ~mn.calls[i].ok

-----------------------------------------------------------------------------
(* What cleanup_fit_file holds between two records                          *)

\* The index of the last Session taken so far (0: none).
LastSession == PrevSession(Len(records) + 1)

\* The records taken since the last Session (or the start of the stream).
CurrentWindow == SubSeq(records, LastSession + 1, Len(records))

\* The local state of a pass that was given the current window only.
WindowOnly == Run(Start, CurrentWindow)

-----------------------------------------------------------------------------
(* cleanup_fit_file called a second time in the same process.  sav, the     *)
(* caller's frame, keeps how the first call ended.                          *)

\* A variant of NewInvocation for lists that outlive the call (module-level
\* lists, or lists bound as default arguments).
NewInvocation_shared_lists(w) == [w EXCEPT !.added = <<>>, !.raised = FALSE]

\* Lines 395-397: a new builder and four new empty lists, whatever an earlier
\* call left.
NewInvocation(w) ==
    [w EXCEPT !.lap_values = reset_values[1],
              !.cadence_values = reset_values[2],
              !.power_values = reset_values[3],
              !.heart_rate_values = reset_values[4],
              !.added = <<>>,
              !.raised = FALSE]

\* builder.build().to_file(new_file_path) raises: the exception leaves the function.
SaveFails ==
    /\ pc = "loop"
    /\ pc' = "raised"
    /\ UNCHANGED <<records, added, lap_values, cadence_values, power_values,
                   heart_rate_values>>
    /\ UNCHANGED frames

\* The caller calls cleanup_fit_file again after the first call returned or raised.
Enter ==
    /\ pc \in {"saved", "raised"}
    /\ sav = Idle
    /\ LET w == NewInvocation(Cur)
       IN  /\ lap_values' = w.lap_values
           /\ cadence_values' = w.cadence_values
           /\ power_values' = w.power_values
           /\ heart_rate_values' = w.heart_rate_values
           /\ added' = w.added
           /\ pc' = IF w.raised THEN "raised" ELSE "loop"
    /\ records' = <<>>
    /\ sav' = [pc |-> "again", first |-> pc, open |-> cadence_values # <<>>]
    /\ UNCHANGED <<pkgs, loc, bak, auth, recent, upl, mn>>

\* Two calls of cleanup_fit_file, one after the other.
SpecTwice == Init /\ [][Next \/ SaveFails \/ Enter]_vars

\* C22: in the second call the builder and the four lists are those of a
\* first call on the records taken so far, however the first call ended.
C22_SecondRunUnaffected ==
    sav # Idle =>
        LET w == Run(Start, records)
        IN  /\ added = w.added
            /\ lap_values = w.lap_values
            /\ cadence_values = w.cadence_values
            /\ power_values = w.power_values
            /\ heart_rate_values = w.heart_rate_values

\* The first call raised with Records in its lists, and the second call has
\* emitted a Session without averages after a Record.
C22_Witness ==
    /\ sav # Idle
    /\ sav.first = "raised"
    /\ sav.open
    /\ pc = "saved"
    /\ \E i \in SessionsDone :
          /\ WindowOf(i) # {}
          /\ Range(AVG_FIELDS) \cap DOMAIN records[i].fields = {}

-----------------------------------------------------------------------------
(* The pass over a file of a FileCreator, three Records and a Session        *)
(* without averages.  sav, the caller's frame, holds the decoded file.      *)

\* The samples of the three Records: power, cadence, heart rate.
ScenarioSamples == << <<100, 80, 120>>, <<150, 90, 130>>, <<200, 100, 140>> >>

\* The temperatures a Record of the file can carry.
ScenarioTemperatures == {0, 25}

\* The i-th Record, with temperature t (None: without one).
ScenarioRecord(i, t) ==
    [kind |-> "record", obj |-> <<"decoded", i + 1>>,
     fields |-> [f \in {"power", "cadence", "heart_rate", "distance"}
                         \cup (IF t = None THEN {} ELSE {"temperature"}) |->
                    CASE f = "power" -> ScenarioSamples[i][1]
                      [] f = "cadence" -> ScenarioSamples[i][2]
                      [] f = "heart_rate" -> ScenarioSamples[i][3]
                      [] f = "distance" -> i
                      [] OTHER -> t]]

\* The decoded files: every choice of the Records that carry a temperature (at
\* least one does) and of the other fields of the Session.
ScenarioStreams ==
    { << [kind |-> "file_creator", obj |-> <<"decoded", 1>>,
          fields |-> Table(FileCreatorFieldNames, 0)] >>
        \o [i \in 1..3 |-> ScenarioRecord(i, t[i])]
        \o << [kind |-> "session", obj |-> <<"decoded", 5>>,
               fields |-> Without(Table(SessionFieldNames, k), Range(AVG_FIELDS))] >> :
      t \in [1..3 -> ScenarioTemperatures \cup {None}] \ {[i \in 1..3 |-> None]},
      k \in {0, 1} }

\* for record in fit_file.records, over the file sav holds.
ScenarioIterate ==
    /\ pc = "loop"
    /\ Len(records) < Len(sav.stream)
    /\ Iterate(sav.stream[Len(records) + 1])

\* The file is exhausted: builder.build().to_file(new_file_path).
ScenarioSave ==
    /\ Len(records) = Len(sav.stream)
    /\ Save

SpecScenario ==
    /\ records = <<>> /\ pc = "loop"
    /\ added = Start.added
    /\ lap_values = Start.lap_values
    /\ cadence_values = Start.cadence_values
    /\ power_values = Start.power_values
    /\ heart_rate_values = Start.heart_rate_values
    /\ pkgs = Idle /\ loc = Idle /\ bak = Idle /\ auth = Idle
    /\ recent = Idle /\ upl = Idle /\ mn = Idle
    /\ sav \in {[pc |-> "cleanup_fit_file", stream |-> s] : s \in ScenarioStreams}
    /\ [][ScenarioIterate \/ ScenarioSave]_vars

\* C23: of a FileCreator, three Records with power, cadence and heart rate
\* (100,80,120), (150,90,130), (200,100,140), at least one of them with a
\* temperature, and a Session without averages, the output holds a Session
\* with average power 150, average cadence 90 and average heart rate 130, and
\* three Records, none with a temperature.
C23_Scenario ==
    pc = "saved" =>
        /\ \E j \in 1..Len(added) :
              /\ added[j].kind = "session"
              /\ getattr(added[j], "avg_power") = 150
              /\ getattr(added[j], "avg_cadence") = 90
              /\ getattr(added[j], "avg_heart_rate") = 130
        /\ Cardinality({j \in 1..Len(added) : added[j].kind = "record"}) = 3
        /\ \A j \in 1..Len(added) :
              added[j].kind = "record" => "temperature" \notin DOMAIN added[j].fields

\* The file whose second Record alone carries a temperature, of value 0, has
\* been processed to its end.
C23_Witness ==
    /\ pc = "saved"
    /\ Len(records) = 5
    /\ getattr(records[3], "temperature") = 0
    /\ getattr(records[2], "temperature") = None
    /\ getattr(records[4], "temperature") = None
    /\ records[5].kind = "session"
    /\ Range(AVG_FIELDS) \cap DOMAIN records[5].fields = {}

-----------------------------------------------------------------------------
\* The Laps taken since the last Session.
LapsInWindow == { k \in (LastSession + 1)..Len(records) : records[k].kind = "lap" }

\* The Records taken since the last Session.
RecordsInWindow == WindowOf(Len(records) + 1)

-----------------------------------------------------------------------------
(* The pass over streams whose Laps carry different field tables.           *)

\* The next record is a Lap with one of three field tables, a Record or a Session.
LapsIterate ==
    /\ HasNext
    /\ \E message \in
            Decoded("lap", {Table(LapFieldNames, k) : k \in {0, 1, 2}}, Len(records) + 1)
              \cup Decoded("record", {Table(RecordFieldNames, k) : k \in {0, 2}},
                           Len(records) + 1)
              \cup Decoded("session",
                           {Table(SessionFieldNames, 0),
                            Without(Table(SessionFieldNames, 1), Range(AVG_FIELDS))},
                           Len(records) + 1) :
          Iterate(message)

SpecLaps == Init /\ [][LapsIterate \/ Save]_vars

\* The Records and Sessions of a sequence of messages, in order, each as its
\* class and field table.
RecordsAndSessions(messages) ==
    LET kept == SelectSeq(messages, LAMBDA x : x.kind \in {"record", "session"})
    IN  [j \in 1..Len(kept) |-> [kind |-> kept[j].kind, fields |-> kept[j].fields]]

\* The records taken so far without the Laps.
WithoutLaps == SelectSeq(records, LAMBDA x : x.kind # "lap")

\* C25: the Records and Sessions handed to the builder, the three averages
\* included, are those of the pass over the stream without its Laps: two
\* streams that differ only in their Laps (whether there are any, where they
\* stand, what their fields hold) have the same Records and Sessions emitted.
C25_LapsDoNotInfluence ==
    RecordsAndSessions(added) = RecordsAndSessions(Run(Start, WithoutLaps).added)

\* A Session without averages has been emitted after a window with a Lap, a
\* Record with samples and a Lap of another field table, in that order.
C25_Witness ==
    \E i \in SessionsDone :
        /\ Range(AVG_FIELDS) \cap DOMAIN records[i].fields = {}
        /\ \E k \in WindowOf(i) : \E l1 \in 1..(k - 1) : \E l2 \in (k + 1)..(i - 1) :
              /\ getattr(records[k], "heart_rate") > 0
              /\ records[l1].kind = "lap" /\ records[l2].kind = "lap"
              /\ records[l1].fields # records[l2].fields

-----------------------------------------------------------------------------
\* The samples of a field over the window of record i.
SamplesOf(i, name) == { SampleOf(records[k], name) : k \in WindowOf(i) }

\* C27: an average computed for a Session from a window with Records is at
\* least the smallest and at most the largest sample of the window, an absent
\* sample counting as 0, and is v when every sample of the window is v.
C27_AverageWithinSamples ==
    \A i \in SessionsDone : \A j \in BuiltFor(i) : \A avg \in Range(AVG_FIELDS) :
        (avg \notin DOMAIN records[i].fields /\ WindowOf(i) # {}) =>
            LET samples == SamplesOf(i, SampledBy(avg))
                q == getattr(added[j], avg)
            IN  /\ q \in Nat
                /\ \E low \in samples : low <= q
                /\ \E high \in samples : q <= high
                /\ \A v \in samples : samples = {v} => q = v

\* A Session without averages has been emitted after a window of two Records
\* whose cadence samples differ, with a mean that is no integer, and whose
\* heart-rate samples, one of them absent, are all 0.
C27_Witness ==
    \E i \in SessionsDone :
        /\ Range(AVG_FIELDS) \cap DOMAIN records[i].fields = {}
        /\ Cardinality(WindowOf(i)) = 2
        /\ Cardinality(SamplesOf(i, "cadence")) = 2
        /\ WindowSum(WindowOf(i), "cadence") % 2 = 1
        /\ SamplesOf(i, "heart_rate") = {0}
        /\ \E k \in WindowOf(i) : "heart_rate" \notin DOMAIN records[k].fields

-----------------------------------------------------------------------------
\* The file at path is named after the source file, with "_", the time and
\* ".fit" after the stem, and lies directly inside the directory.
TimestampSuffixed(path, source, directory) ==
    LET name == path[Len(path)]
    IN  /\ Inside(path, directory)
        /\ Len(name) > 4
        /\ SubSeq(name, Len(name) - 3, Len(name)) = <<"_", "2025-01-01_000000", ".", "fit">>
        /\ SubSeq(name, 1, Len(name) - 4) = stem(source[Len(source)])
        /\ name # source[Len(source)]

\* C28: whatever cleanup_and_save_fit_file, called by main, has written,
\* completely or in part, is one file, which is not the FIT file it selected
\* but the file named after it with the time, inside the backup location; and
\* so are the files main knows of afterwards.
C28_SourceOnlyRead ==
    /\ sav # Idle =>
          /\ Cardinality(sav.files) <= 1
          /\ \A x \in sav.files :
                /\ sav.fit_file # NoPath
                /\ x.path # sav.fit_file
                /\ TimestampSuffixed(x.path, sav.fit_file, sav.backup_location)
    /\ mn.pc # "idle" =>
          \A x \in mn.files :
              \E name \in ActivityNames :
                  TimestampSuffixed(x.path, <<name>>, mn.backup_location)

\* Inside main, cleanup_and_save_fit_file has ended on a to_file that raised
\* after it had created the output file, the FIT directory holding two
\* matching files.
C28_Witness ==
    /\ mn.pc = "cleanup_and_save_fit_file"
    /\ sav # Idle
    /\ sav.pc = "done"
    /\ sav.failed = "to_file write"
    /\ Cardinality(Matching(sav.listing)) = 2
    /\ \E x \in sav.files : ~x.complete

-----------------------------------------------------------------------------
\* The positions of call in the calls of authenticate_to_garmin.
CallsAt(call) == {i \in 1..Len(auth.calls) : auth.calls[i] = call}

\* C29: the tokens are saved at most once, right after a login that returned;
\* when get_credentials_for_garmin was called and the login raised an HTTP
\* error, no tokens were saved and the result is False; and when it was
\* called and the result is True, the login and then the save were its last
\* two calls.
C29_TokensSavedAfterLogin ==
    auth.pc = "done" =>
        /\ Cardinality(CallsAt("save")) <= 1
        /\ \A i \in CallsAt("save") :
              i > 1 /\ auth.calls[i - 1] = "login" /\ auth.env.login = ""
        /\ (CallsAt("input") # {} /\ auth.env.login = "GarthHTTPError") =>
              CallsAt("save") = {} /\ ~auth.ret /\ auth.raised = ""
        /\ (CallsAt("input") # {} /\ auth.ret) =>
              /\ Len(auth.calls) >= 3
              /\ SubSeq(auth.calls, Len(auth.calls) - 2, Len(auth.calls))
                    = <<"input", "login", "save">>

\* Without stored tokens the user was prompted and the login raised an HTTP
\* error: nothing was saved.
C29_Witness ==
    /\ auth.pc = "done"
    /\ ~auth.env.tokens_exist
    /\ auth.env.login = "GarthHTTPError"
    /\ auth.calls = <<"input", "login">>
    /\ ~auth.ret

-----------------------------------------------------------------------------
(* get_backup_path called again after a call that returned the directory    *)
(* chosen in the dialog.  The frame of a later call keeps, as first, what   *)
(* that call returned.                                                      *)

\* A later call, with the JSON file as the call before left it; the dialog,
\* should it be shown, and the write, should it be tried, can go any way.
BackupAgain ==
    /\ bak.pc = "done"
    /\ \/ "first" \in DOMAIN bak
       \/ bak.prompted = 1 /\ bak.ret # NoPath
    /\ \E askdirectory \in {<<>>, <<"backups">>, <<"gone">>}, write_ok \in BOOLEAN :
          bak' = [pc |-> "enter",
                  env |-> [json_file |-> bak.json_file, askdirectory |-> askdirectory,
                           write_ok |-> write_ok],
                  json_file |-> bak.json_file, prompted |-> 0, backup_path |-> <<>>,
                  ret |-> NoPath, raised |-> "",
                  first |-> IF "first" \in DOMAIN bak THEN bak.first ELSE bak.ret]
    /\ UNCHANGED <<records, added, lap_values, cadence_values, power_values,
                   heart_rate_values, pc, pkgs, loc, auth, recent, sav, upl, mn>>

SpecBackupAgain ==
    /\ StartsIn({Idle}, {Idle}, BackupStarts, {Idle}, {Idle}, {Idle}, {Idle}, {Idle})
    /\ [][BackupRead \/ BackupPrompt \/ BackupWrite \/ BackupAgain]_vars

\* C30: in every call after one that returned the directory chosen in the
\* dialog, the JSON file stores that directory, before, during and after the
\* call; and such a call, when the directory exists, returns it and shows no
\* dialog.
C30_LaterCallsReturnChosen ==
    "first" \in DOMAIN bak =>
        /\ Stores(bak.json_file, bak.first)
        /\ (bak.pc = "done" /\ is_dir(bak.first)) =>
              /\ bak.ret = bak.first
              /\ bak.prompted = 0
              /\ bak.raised = ""

\* A second call has returned the directory chosen in the first, although its
\* dialog would have given another directory.
C30_Witness ==
    /\ "first" \in DOMAIN bak
    /\ bak.pc = "done"
    /\ bak.first = <<"chosen">>
    /\ bak.env.askdirectory = <<"backups">>
    /\ bak.ret = <<"chosen">>
    /\ bak.prompted = 0

====
